---- MODULE Spec2Model ----
(***************************************************************************)
(* Luster-backend chat subsystem: the chat store (chats, chat_messages,    *)
(* group_invites collections), the HTTP handlers of routers/chat/chat.py,  *)
(* the realtime handler of routers/chat/websocket_chat.py and the          *)
(* ConnectionManager of utils/websocket_manager.py.                        *)
(*                                                                         *)
(* One chat room is modelled.  Every MongoDB call (one awaited             *)
(* insert_one / update_one / update_many / find_one) is one atomic step;   *)
(* a handler that makes several calls is a task that other tasks may       *)
(* interleave with between two calls.                                      *)
(***************************************************************************)
EXTENDS Integers, Sequences, FiniteSets, TLC

\* ------------------------------------------------------------------ bounds
MaxMsgs == 3

\* ------------------------------------------------------------- identities
Users == {1, 2, 3}
Types == {"user", "dealer"}

\* A user id as Python holds it: the int of User.user_id (HTTP handlers) or
\* the str returned by decode_access_token (realtime handler).
IntId(n) == [k |-> "int", v |-> n]
StrId(n) == [k |-> "str", v |-> n]

\* Python str(x): an int and the str of its digits both become the str.
Str(x) == [k |-> "str", v |-> x.v]

\* f"{type}_{id}": the unread_counts key; formatting erases int/str.
UnreadKey(type, id) == <<type, id.v>>

Keys == Types \X Users

NoMsg == [message_id |-> 0]
NoInvite == [is_active |-> FALSE, expires_at |-> 0, used_by |-> 0]
Placeholder == "This message was deleted"

VARIABLES
  clock,          \* datetime.utcnow(), strictly increasing
  participants,   \* chats.participants: sequence of {id, type, role}
  unread_counts,  \* chats.unread_counts: key -> counter
  last_message,   \* chats.last_message projection
  last_activity,  \* chats.last_activity
  messages,       \* chat_messages collection, in insertion (natural) order
  task,           \* per user: the handler in flight and its locals
  resp,           \* per user: outcome of the last finished handler
  sendsOK,        \* per user: number of send handlers that returned success
  sock,           \* per user: state of the user's realtime transport
  active_connections, \* websocket_chat.active_connections (its keys)
  ws_manager,     \* websocket_chat.manager, a ConnectionManager
  http_manager,   \* chat.manager, another ConnectionManager
  outbox,         \* per user: events sent on the user's realtime transport
  invite,         \* group_invites: the document of one invite code
  joinsOK,        \* the users whose redeem call returned status "joined"
  lastOp,         \* the handler that ran last as one step, and its outcome
  bcast,          \* the broadcast_to_chat call in flight: its loop state
  settings,       \* chats.settings of the group room
  statuses,       \* the statuses collection, in insertion order
  dealers,        \* the dealers collection: {owner_id, user_id} records
  chats           \* chats: the dealer_chat documents, in insertion order

chatVars == <<participants, unread_counts, last_message, last_activity>>
\* the room's settings, the statuses, the dealer networks, the dealer chats
extVars == <<settings, statuses, dealers, chats>>
rtVars == <<sock, active_connections, ws_manager, http_manager, bcast, extVars>>
inviteVars == <<invite, joinsOK>>
\* what no send handler writes
sendFrame == <<rtVars, inviteVars, lastOp>>
vars == <<clock, participants, unread_counts, last_message, last_activity,
          messages, task, resp, sendsOK, sock, active_connections,
          ws_manager, http_manager, outbox, invite, joinsOK, lastOp, bcast,
          settings, statuses, dealers, chats>>

\* no broadcast_to_chat call in flight
NoBroadcast == [pc |-> "idle", id |-> 0, exclude |-> 0, used |-> 0, todo |-> {},
                began |-> {}, failed |-> {}, quiet |-> TRUE]

NoOp == [op |-> "none", u |-> 0, mid |-> 0, everyone |-> FALSE, ok |-> FALSE,
         n |-> 0, code |-> 0]

Idle == [op |-> "idle", pc |-> "idle", uid |-> IntId(0), stype |-> "none",
         content |-> "", t |-> 0, mid |-> 0, others |-> {},
         edit_history |-> <<>>, reactions |-> <<>>,
         admin_ids |-> {}, parts |-> {}, admins |-> <<>>,
         member_ids |-> <<>>, new_members |-> <<>>, dealer_id |-> 0]

AllIdle == \A u \in Users : task[u].op = "idle"

InFlight == Cardinality({u \in Users : task[u].op # "idle"})

\* ------------------------------------------------------------- chat store
MinOf(S) == CHOOSE x \in S : \A y \in S : x <= y

\* for participant in chat["participants"]: if str(participant["id"]) == str(user_id)
ParticipantIdx(uid) ==
  {i \in DOMAIN participants : Str(participants[i].id) = Str(uid)}

\* ChatService.get_participant_type: the type of the first match, "none"
\* standing for the HTTPException(403) raised when there is none.
GetParticipantType(uid) ==
  IF ParticipantIdx(uid) = {} THEN "none"
  ELSE participants[MinOf(ParticipantIdx(uid))].type

\* any(str(p["id"]) == str(current_user.user_id) for p in participants)
IsParticipant(uid) == ParticipantIdx(uid) # {}

\* a store that upserts on the sender instead of inserting: a second message
\* of the same sender replaces the first
InsertOneUpsertBySender(coll, doc) ==
  IF \E i \in DOMAIN coll : coll[i].sender_id = doc.sender_id
    THEN [i \in DOMAIN coll |->
            IF coll[i].sender_id = doc.sender_id
              THEN [doc EXCEPT !.message_id = i] ELSE coll[i]]
    ELSE Append(coll, doc)

\* message_collection.insert_one(doc): appends, the new _id is fresh.
InsertOne(coll, doc) == Append(coll, doc)

\* a message document without a reply_to field
NoReply == [message_id |-> 0, content |-> "", sender_id |-> StrId(0)]

\* a message document without a deleted_by field
NoDeletion == [user_id |-> IntId(0), user_type |-> "none", timestamp |-> 0]

\* ChatService.add_message, lines 50-71: the document that is inserted.
\* attachment, gem_id and reply_to of the ChatMessage are not copied;
\* reactions and edit_history are absent (read as empty) until first set.
MessageDict(mid, uid, stype, content, t) ==
  [message_id |-> mid,
   sender_id |-> Str(uid),
   sender_type |-> stype,
   content |-> content,
   timestamp |-> t,
   read_by |-> <<[user_id |-> Str(uid), user_type |-> stype, timestamp |-> t]>>,
   delivered_to |-> <<>>,
   is_deleted |-> FALSE,
   deleted_for |-> <<>>,
   deleted_by |-> NoDeletion,
   attachment |-> "none",
   reply_to |-> NoReply,
   reactions |-> <<>>,
   is_edited |-> FALSE,
   edit_history |-> <<>>]

\* ChatService.add_message, lines 86-101: the last_message projection.
LastMessageOf(mid, uid, stype, content, t) ==
  [message_id |-> mid, content |-> content, sender_id |-> Str(uid),
   sender_type |-> stype, timestamp |-> t]

\* ChatService.increment_unread_count, lines 1200-1209: the keys to $inc.
OtherParticipantKeys(sender_id, sender_type) ==
  {UnreadKey(participants[i].type, participants[i].id) :
     i \in {j \in DOMAIN participants :
              Str(participants[j].id) # Str(sender_id)
              \/ participants[j].type # sender_type}}

\* chat_collection.update_one(..., {"$inc": updates})
IncUnread(counts, keys) ==
  [k \in Keys |-> IF k \in keys THEN counts[k] + 1 ELSE counts[k]]

\* ------------------------------------------------------ ConnectionManager
\* ConnectionManager.__init__: no connection, no room.  connection ids are
\* f"user_{user_id}", written here as the user number.
NewManager == [active_connections |-> {}, chat_rooms |-> {}]

\* ConnectionManager.join_chat(chat_id, connection_id)
JoinChat(mgr, cid) == [mgr EXCEPT !.chat_rooms = @ \cup {cid}]

\* ConnectionManager.broadcast_to_chat: the connections send_json is called
\* on: members of the room, not the excluded one, with a websocket in this
\* manager's own active_connections.
BroadcastTargets(mgr, exclude) ==
  {cid \in mgr.chat_rooms : cid # exclude /\ cid \in mgr.active_connections}

\* the events each target's transport carries after the broadcast
Deliver(box, targets, event) ==
  [u \in Users |-> IF u \in targets THEN box[u] \cup {event} ELSE box[u]]

NewMessageEvent(mid) == [type |-> "new_message", message_id |-> mid]
NewReplyEvent(mid) == [type |-> "new_reply", message_id |-> mid]

\* ------------------------------------------------------------ send paths
SendContents == {"hi"}

CanStart(u) == task[u].op = "idle" /\ Len(messages) + InFlight < MaxMsgs

Begin(u, op, pc, uid, stype, c) ==
  task' = [task EXCEPT ![u] = [Idle EXCEPT !.op = op, !.pc = pc, !.uid = uid,
                                           !.stype = stype, !.content = c]]

\* the handler raises an HTTPException / reports an error: nothing is stored
Reject(u) ==
  /\ resp' = [resp EXCEPT ![u] = "error"]
  /\ task' = [task EXCEPT ![u] = Idle]

\* the send handler returns the saved message
FinishSend(u) ==
  /\ resp' = [resp EXCEPT ![u] = "ok"]
  /\ sendsOK' = [sendsOK EXCEPT ![u] = @ + 1]
  /\ task' = [task EXCEPT ![u] = Idle]

\* chat.send_message, line 350: get_participant_type, 403 for a stranger
\* (re-raised as 500 by the handler's except clause).
HttpSendBegin(u, c) ==
  /\ CanStart(u)
  /\ IF GetParticipantType(IntId(u)) = "none"
       THEN Reject(u)
       ELSE /\ Begin(u, "send", "insert", IntId(u),
                     GetParticipantType(IntId(u)), c)
            /\ UNCHANGED resp
  /\ UNCHANGED <<clock, chatVars, messages, sendsOK, sendFrame, outbox>>

\* chat.reply_to_message, lines 1336-1338: get_message, 404 when absent
ReplyBegin(u, orig, c) ==
  /\ CanStart(u)
  /\ IF orig \notin DOMAIN messages
       THEN Reject(u)
       ELSE /\ Begin(u, "reply", "r_ptype", IntId(u), "none", c)
            /\ UNCHANGED resp
  /\ UNCHANGED <<clock, chatVars, messages, sendsOK, sendFrame, outbox>>

\* chat.reply_to_message, line 1340: get_participant_type
ReplyPtype(u) ==
  /\ task[u].pc = "r_ptype"
  /\ IF GetParticipantType(task[u].uid) = "none"
       THEN Reject(u)
       ELSE /\ task' = [task EXCEPT ![u].pc = "insert",
                                    ![u].stype = GetParticipantType(task[u].uid)]
            /\ UNCHANGED resp
  /\ UNCHANGED <<clock, chatVars, messages, sendsOK, sendFrame, outbox>>

\* chat.upload_attachment, lines 542-554: get_chat_details, 403 for a stranger
AttachBegin(u) ==
  /\ CanStart(u)
  /\ IF ~IsParticipant(IntId(u))
       THEN Reject(u)
       ELSE /\ Begin(u, "attach", "a_upload", IntId(u), "none", "Sent an attachment")
            /\ UNCHANGED resp
  /\ UNCHANGED <<clock, chatVars, messages, sendsOK, sendFrame, outbox>>

\* chat.upload_attachment, lines 567-576: add_attachment (the blob store may
\* fail: 500), then get_participant_type.
AttachUpload(u, stored) ==
  /\ task[u].pc = "a_upload"
  /\ IF ~stored \/ GetParticipantType(task[u].uid) = "none"
       THEN Reject(u)
       ELSE /\ task' = [task EXCEPT ![u].pc = "insert",
                                    ![u].stype = GetParticipantType(task[u].uid)]
            /\ UNCHANGED resp
  /\ UNCHANGED <<clock, chatVars, messages, sendsOK, sendFrame, outbox>>

\* ChatService.add_message, lines 50-71: utcnow(), then insert_one
InsertMessage(u, uid, stype, c, op) ==
  /\ messages' = InsertOne(messages,
                   MessageDict(Len(messages) + 1, uid, stype, c, clock))
  /\ clock' = clock + 1
  /\ task' = [task EXCEPT ![u] = [Idle EXCEPT !.op = op, !.pc = "setlast",
                !.uid = uid, !.stype = stype, !.content = c,
                !.t = clock, !.mid = Len(messages) + 1]]

AddMessageInsert(u) ==
  /\ task[u].pc = "insert"
  /\ InsertMessage(u, task[u].uid, task[u].stype, task[u].content, task[u].op)
  /\ UNCHANGED <<chatVars, resp, sendsOK, sendFrame, outbox>>

\* websocket_chat.handle_websocket_message, lines 104-130: a "message" frame
\* goes straight to add_message as sender_type "user"; no participant check.
WsMessageFrame(u, c) ==
  /\ CanStart(u)
  /\ sock[u] = "open"
  /\ InsertMessage(u, StrId(u), "user", c, "ws_message")
  /\ UNCHANGED <<chatVars, resp, sendsOK, sendFrame, outbox>>

\* ChatService.add_message, lines 86-101: update_one $set last_message and
\* last_activity; then the caller's broadcast_to_chat (no send_json is
\* awaited unless the manager holds a websocket for a room member).
AddMessageSetLast(u) ==
  /\ task[u].pc = "setlast"
  /\ last_message' = LastMessageOf(task[u].mid, task[u].uid, task[u].stype,
                                   task[u].content, task[u].t)
  /\ last_activity' = task[u].t
  /\ UNCHANGED <<clock, participants, unread_counts, messages, sendFrame>>
  /\ CASE task[u].op = "send" ->
            \* chat.send_message, line 365: increment_unread_count is next
            /\ task' = [task EXCEPT ![u].pc = "incget"]
            /\ UNCHANGED <<resp, sendsOK, outbox>>
       [] task[u].op = "reply" ->
            \* chat.reply_to_message, lines 1361-1369
            /\ outbox' = Deliver(outbox, BroadcastTargets(http_manager, 0),
                                 NewReplyEvent(task[u].mid))
            /\ FinishSend(u)
       [] task[u].op = "attach" ->
            \* chat.upload_attachment, lines 589-598
            /\ outbox' = Deliver(outbox, BroadcastTargets(http_manager, u),
                                 NewMessageEvent(task[u].mid))
            /\ FinishSend(u)
       [] task[u].op = "ws_message" ->
            \* websocket_chat, lines 149-156
            /\ outbox' = Deliver(outbox, BroadcastTargets(ws_manager, u),
                                 NewMessageEvent(task[u].mid))
            /\ task' = [task EXCEPT ![u].pc = "ws_confirm"]
            /\ UNCHANGED <<resp, sendsOK>>

\* websocket_chat, line 159: message_sent to the sender's own transport
WsConfirm(u) ==
  /\ task[u].pc = "ws_confirm"
  /\ outbox' = [outbox EXCEPT ![u] = @ \cup
                  {[type |-> "message_sent", message_id |-> task[u].mid]}]
  /\ task' = [task EXCEPT ![u].pc = "incget"]
  /\ UNCHANGED <<clock, chatVars, messages, resp, sendsOK, sendFrame>>

\* ChatService.increment_unread_count, lines 1195-1209: get_chat_details
IncrementUnreadGet(u) ==
  /\ task[u].pc = "incget"
  /\ task' = [task EXCEPT ![u].pc = "inc",
                ![u].others = OtherParticipantKeys(task[u].uid, task[u].stype)]
  /\ UNCHANGED <<clock, chatVars, messages, resp, sendsOK, sendFrame, outbox>>

\* ChatService.increment_unread_count, lines 1211-1220: update_one $inc; then
\* chat.send_message, lines 372-381 (broadcast, return) or the end of the
\* realtime "message" branch.
IncrementUnreadInc(u) ==
  /\ task[u].pc = "inc"
  /\ unread_counts' = IncUnread(unread_counts, task[u].others)
  /\ outbox' = IF task[u].op = "send"
                 THEN Deliver(outbox, BroadcastTargets(http_manager, u),
                              NewMessageEvent(task[u].mid))
                 ELSE outbox
  /\ FinishSend(u)
  /\ UNCHANGED <<clock, participants, last_message, last_activity, messages,
                 sendFrame>>

SendStep(u) ==
  \/ \E c \in SendContents : HttpSendBegin(u, c)
  \/ \E c \in SendContents : \E orig \in 1..MaxMsgs : ReplyBegin(u, orig, c)
  \/ ReplyPtype(u)
  \/ AttachBegin(u)
  \/ \E stored \in BOOLEAN : AttachUpload(u, stored)
  \/ \E c \in SendContents : WsMessageFrame(u, c)
  \/ AddMessageInsert(u)
  \/ AddMessageSetLast(u)
  \/ WsConfirm(u)
  \/ IncrementUnreadGet(u)
  \/ IncrementUnreadInc(u)

\* A group created by chat.create_group_chat: the creator (type "user",
\* admin) and one member from the dealer network (type "dealer"); user 3 is
\* a stranger.  Every user holds an authenticated realtime connection.
GroupParticipants ==
  <<[id |-> IntId(1), type |-> "user", role |-> "admin", joined_at |-> 0],
    [id |-> IntId(2), type |-> "dealer", role |-> "member", joined_at |-> 0]>>

\* chat.create_group_chat, lines 283-305: the settings of a new group; the
\* creator (user 1) is its one admin.
GroupSettings ==
  [allow_member_invites |-> FALSE,
   allow_member_adds |-> FALSE,
   only_admins_message |-> FALSE,
   allow_admin_invites |-> TRUE,
   allow_user_invites |-> FALSE,
   group_admins |-> <<[id |-> IntId(1), type |-> "user", role |-> "admin",
                       added_by |-> IntId(0), added_at |-> 0]>>,
   clear_history |-> {}]

InitStore ==
  /\ clock = 1
  /\ unread_counts = [k \in Keys |-> 0]
  /\ last_message = NoMsg
  /\ last_activity = 0
  /\ messages = <<>>
  /\ task = [u \in Users |-> Idle]
  /\ resp = [u \in Users |-> "none"]
  /\ sendsOK = [u \in Users |-> 0]
  /\ ws_manager = NewManager
  /\ http_manager = NewManager
  /\ outbox = [u \in Users |-> {}]
  /\ joinsOK = {}
  /\ lastOp = NoOp
  /\ bcast = NoBroadcast
  /\ settings = GroupSettings
  /\ statuses = <<>>
  /\ dealers = {[owner_id |-> 1, user_id |-> 2]}
  /\ chats = <<>>

InitSend ==
  /\ InitStore
  /\ participants = GroupParticipants
  /\ invite = NoInvite
  /\ sock = [u \in Users |-> "open"]
  /\ active_connections = Users

NextSend == \E u \in Users : SendStep(u)

SpecSend == InitSend /\ [][NextSend]_vars

\* ------------------------------------------------------- invite redemption
MaxClock == 4
InviteTTL == 2

\* update_one(..., {"$addToSet": {field: entry}}): appended unless an equal
\* element is already there
AddToSet(seq, entry) ==
  IF \E i \in DOMAIN seq : seq[i] = entry THEN seq ELSE Append(seq, entry)

\* ChatService.get_invite, lines 1270-1274: the find_one filter
InviteFound(now) == invite.is_active /\ invite.expires_at > now

\* the invariant of the data model: is_active, unexpired, used_by null
Redeemable == invite.is_active /\ clock < invite.expires_at /\ invite.used_by = 0

\* time passes
Tick ==
  /\ clock < MaxClock
  /\ clock' = clock + 1
  /\ UNCHANGED <<chatVars, messages, task, resp, sendsOK, rtVars, outbox,
                 inviteVars, lastOp>>

\* chat.join_group_via_invite, lines 975-977: get_invite, 404 when none
JoinBegin(u) ==
  /\ task[u].op = "idle"
  /\ IF ~InviteFound(clock)
       THEN Reject(u)
       ELSE /\ task' = [task EXCEPT ![u] = [Idle EXCEPT !.op = "join",
                          !.pc = "j_getchat", !.uid = IntId(u),
                          !.t = invite.expires_at]]
            /\ UNCHANGED resp
  /\ UNCHANGED <<clock, chatVars, messages, sendsOK, rtVars, outbox,
                 inviteVars, lastOp>>

\* chat.join_group_via_invite, lines 980-1005: the expiry re-check on the
\* fetched invite, get_chat, and the already-member return
JoinGetChat(u) ==
  /\ task[u].pc = "j_getchat"
  /\ IF clock > task[u].t
       THEN Reject(u)
       ELSE IF IsParticipant(task[u].uid)
         THEN /\ resp' = [resp EXCEPT ![u] = "already_member"]
              /\ task' = [task EXCEPT ![u] = Idle]
         ELSE /\ task' = [task EXCEPT ![u].pc = "j_add"]
              /\ UNCHANGED resp
  /\ UNCHANGED <<clock, chatVars, messages, sendsOK, rtVars, outbox,
                 inviteVars, lastOp>>

\* ChatService.add_chat_participant, lines 1302-1314
AddChatParticipant(parts, uid, type, role, now) ==
  AddToSet(parts, [id |-> uid, type |-> type, role |-> role, joined_at |-> now])

\* chat.join_group_via_invite, lines 1008-1013
JoinAdd(u) ==
  /\ task[u].pc = "j_add"
  /\ participants' = AddChatParticipant(participants, task[u].uid, "user",
                                        "member", clock)
  /\ task' = [task EXCEPT ![u].pc = "j_mark"]
  /\ UNCHANGED <<clock, unread_counts, last_message, last_activity, messages,
                 resp, sendsOK, rtVars, outbox, inviteVars, lastOp>>

\* ChatService.mark_invite_used, lines 1327-1336
MarkInviteUsed(inv, used_by) ==
  [inv EXCEPT !.is_active = FALSE, !.used_by = used_by]

\* chat.join_group_via_invite, lines 1016-1031: mark used, return "joined"
JoinMark(u) ==
  /\ task[u].pc = "j_mark"
  /\ invite' = MarkInviteUsed(invite, task[u].uid.v)
  /\ joinsOK' = joinsOK \cup {u}
  /\ resp' = [resp EXCEPT ![u] = "joined"]
  /\ task' = [task EXCEPT ![u] = Idle]
  /\ UNCHANGED <<clock, chatVars, messages, sendsOK, rtVars, outbox, lastOp>>

JoinStep(u) == JoinBegin(u) \/ JoinGetChat(u) \/ JoinAdd(u) \/ JoinMark(u)

\* A group whose only participant is its creator, and one invite created by
\* ChatService.create_group_invite (lines 831-840) at time 1.
InitInvite ==
  /\ InitStore
  /\ participants = <<GroupParticipants[1]>>
  /\ invite = [is_active |-> TRUE, expires_at |-> 1 + InviteTTL, used_by |-> 0]
  /\ sock = [u \in Users |-> "closed"]
  /\ active_connections = {}

NextInvite == Tick \/ \E u \in Users : JoinStep(u)

SpecInvite == InitInvite /\ [][NextInvite]_vars

\* C3: over any sequence or interleaving of redeem calls by users who are
\* not yet members, at most one call returns "joined" and adds a
\* participant.
C3_AtMostOneJoined ==
  /\ Cardinality(joinsOK) <= 1
  /\ Cardinality({i \in DOMAIN participants : participants[i].joined_at > 0}) <= 1

\* C4: redemption is atomic: no state has a user added by the invite while
\* the invite is still redeemable, and none has the invite marked used by a
\* user who is not a participant.
C4_RedeemAtomic ==
  /\ Redeemable =>
       \A i \in DOMAIN participants : participants[i].joined_at = 0
  /\ invite.used_by # 0 => IsParticipant(IntId(invite.used_by))

\* ------------------------------------------------- properties of the sends
RECURSIVE SumOver(_, _)
SumOver(f, S) ==
  IF S = {} THEN 0
  ELSE LET x == CHOOSE y \in S : TRUE IN f[x] + SumOver(f, S \ {x})

MessagesOf(u) == {i \in DOMAIN messages : messages[i].sender_id = StrId(u)}

\* the message carrying the latest server-assigned timestamp
LatestIdx ==
  CHOOSE i \in DOMAIN messages :
    \A j \in DOMAIN messages : messages[j].timestamp <= messages[i].timestamp

\* C1: once every send issued (by any interleaving of the senders' store
\* steps) has completed, the room holds exactly one message per completed
\* send: per sender as many messages as sends, each under its own id.
C1_OneMessagePerSend ==
  AllIdle =>
    /\ \A u \in Users : Cardinality(MessagesOf(u)) = sendsOK[u]
    /\ Len(messages) = SumOver(sendsOK, Users)
    /\ \A i \in DOMAIN messages : messages[i].message_id = i

\* C1 witness: two sends of distinct participants have completed and their
\* store steps interleaved (the projection was written out of insert order).
C1_Witness ==
  /\ AllIdle
  /\ Len(messages) >= 2
  /\ sendsOK[1] >= 1 /\ sendsOK[2] >= 1
  /\ last_message.message_id # Len(messages)

\* C2: once every send has completed, last_message and last_activity
\* identify the message with the latest server-assigned timestamp.
C2_LastMessageIsLatest ==
  (AllIdle /\ messages # <<>>) =>
    /\ last_message.message_id = messages[LatestIdx].message_id
    /\ last_message.timestamp = messages[LatestIdx].timestamp
    /\ last_activity = messages[LatestIdx].timestamp

\* C6: a step of a send handler run for a user who is not a participant of
\* the room persists no message and changes neither last_message nor any
\* unread counter.
C6_StrangerSendRejected ==
  [][\A u \in Users :
       (~IsParticipant(IntId(u)) /\ task'[u] # task[u]) =>
         /\ messages' = messages
         /\ last_message' = last_message
         /\ unread_counts' = unread_counts]_vars

\* C7: every successful send adds exactly 1 to the unread counter of every
\* participant other than the sender and nothing to the sender's: with no
\* reset, a participant's counter equals the number of completed sends of
\* the other users.
C7_UnreadCountsSends ==
  AllIdle =>
    \A i \in DOMAIN participants :
      unread_counts[UnreadKey(participants[i].type, participants[i].id)]
        = SumOver(sendsOK, Users \ {participants[i].id.v})

\* ------------------------------------------------------ message lifecycle
\* Handlers run to completion, one after the other.

Op(op, u, mid, everyone, ok) ==
  [op |-> op, u |-> u, mid |-> mid, everyone |-> everyone, ok |-> ok,
   n |-> 1 - lastOp.n, code |-> 0]

\* update_one / update_many {"$set": {f"unread_counts.{key}": 0}}
ResetUnread(counts, key) == [counts EXCEPT ![key] = 0]

\* chat.send_message, run as a whole: get_participant_type, add_message,
\* increment_unread_count, broadcast on chat.manager.
HttpSendWhole(u, c) ==
  /\ Len(messages) < MaxMsgs /\ clock < MaxClock
  /\ LET uid == IntId(u)
         ty == GetParticipantType(uid)
         mid == Len(messages) + 1
     IN IF ty = "none"
          THEN /\ lastOp' = Op("send", u, 0, FALSE, FALSE)
               /\ UNCHANGED <<clock, chatVars, messages, sendsOK, outbox>>
          ELSE /\ messages' = InsertOne(messages, MessageDict(mid, uid, ty, c, clock))
               /\ last_message' = LastMessageOf(mid, uid, ty, c, clock)
               /\ last_activity' = clock
               /\ unread_counts' = IncUnread(unread_counts, OtherParticipantKeys(uid, ty))
               /\ outbox' = Deliver(outbox, BroadcastTargets(http_manager, u),
                                    NewMessageEvent(mid))
               /\ clock' = clock + 1
               /\ sendsOK' = [sendsOK EXCEPT ![u] = @ + 1]
               /\ lastOp' = Op("send", u, mid, FALSE, TRUE)
               /\ UNCHANGED participants
  /\ UNCHANGED <<task, resp, rtVars, inviteVars>>

\* websocket_chat.handle_websocket_message, the "message" branch as a whole
WsMessageWhole(u, c) ==
  /\ Len(messages) < MaxMsgs /\ clock < MaxClock
  /\ sock[u] = "open"
  /\ LET uid == StrId(u)
         mid == Len(messages) + 1
     IN /\ messages' = InsertOne(messages, MessageDict(mid, uid, "user", c, clock))
        /\ last_message' = LastMessageOf(mid, uid, "user", c, clock)
        /\ last_activity' = clock
        /\ unread_counts' = IncUnread(unread_counts, OtherParticipantKeys(uid, "user"))
        /\ outbox' = [v \in Users |->
             Deliver(outbox, BroadcastTargets(ws_manager, u), NewMessageEvent(mid))[v]
             \cup (IF v = u THEN {[type |-> "message_sent", message_id |-> mid]}
                   ELSE {})]
        /\ clock' = clock + 1
        /\ sendsOK' = [sendsOK EXCEPT ![u] = @ + 1]
        /\ lastOp' = Op("ws_message", u, mid, FALSE, TRUE)
  /\ UNCHANGED <<participants, task, resp, rtVars, inviteVars>>

\* ChatService.delete_message, lines 150-156: the update_one filter is an
\* $or over _id, message_id and chat_id, so every message of the same chat
\* matches; update_one changes one matching document, which one being left
\* to the store.
DeleteCandidates(mid) == DOMAIN messages

\* ChatService.delete_message, lines 159-171: the delete-for-everyone update
DeleteForEveryoneUpdate(m, uid, utype, now) ==
  [m EXCEPT !.is_deleted = TRUE,
            !.content = Placeholder,
            !.deleted_by = [user_id |-> uid, user_type |-> utype, timestamp |-> now],
            !.attachment = "none"]

\* ChatService.delete_message, lines 173-181: $addToSet deleted_for
DeleteForSelfUpdate(m, uid, utype, now) ==
  [m EXCEPT !.deleted_for =
     AddToSet(@, [user_id |-> uid, user_type |-> utype, deleted_at |-> now])]

\* chat.delete_message, lines 397-434: the checks before the deletion
DeleteAllowed(u, mid, everyone) ==
  /\ mid \in DOMAIN messages
  /\ IsParticipant(IntId(u))
  /\ everyone => Str(messages[mid].sender_id) = Str(IntId(u))

\* chat.delete_message as a whole
DeleteMessage(u, mid, everyone) ==
  /\ clock < MaxClock
  /\ IF ~DeleteAllowed(u, mid, everyone)
       THEN /\ lastOp' = Op("delete", u, mid, everyone, FALSE)
            /\ UNCHANGED <<clock, messages>>
       ELSE /\ \E tgt \in DeleteCandidates(mid) :
                 messages' = [messages EXCEPT ![tgt] =
                   IF everyone
                     THEN DeleteForEveryoneUpdate(@, IntId(u),
                            GetParticipantType(IntId(u)), clock)
                     ELSE DeleteForSelfUpdate(@, IntId(u),
                            GetParticipantType(IntId(u)), clock)]
            /\ clock' = clock + 1
            /\ lastOp' = Op("delete", u, mid, everyone, TRUE)
  /\ UNCHANGED <<chatVars, task, resp, sendsOK, rtVars, outbox, inviteVars>>

\* a filter that hides a message as soon as anybody deleted it for themself
HiddenFromAnyone(m, uid, utype) == m.deleted_for # <<>>

\* ChatService.get_chat_messages, lines 597-604: the deleted_for filter
HiddenFrom(m, uid, utype) ==
  \E i \in DOMAIN m.deleted_for :
    /\ {"user_id", "user_type"} \subseteq DOMAIN m.deleted_for[i]
    /\ m.deleted_for[i].user_id = uid
    /\ m.deleted_for[i].user_type = utype

\* ChatService.get_chat_messages, lines 629-649: what the viewer is shown
ProcessedMsg(m) ==
  [message_id |-> m.message_id,
   sender_id |-> m.sender_id,
   sender_type |-> m.sender_type,
   content |-> IF m.is_deleted THEN Placeholder ELSE m.content,
   timestamp |-> m.timestamp,
   read_by |-> m.read_by,
   delivered_to |-> m.delivered_to,
   attachment |-> IF m.is_deleted THEN "none" ELSE m.attachment]

\* chat.get_chat_messages + ChatService.get_chat_messages: the message list
\* of viewer u (HTTP: the int id and the participant's stored type)
MessageList(u) ==
  {ProcessedMsg(messages[i]) :
     i \in {j \in DOMAIN messages :
              ~HiddenFrom(messages[j], IntId(u), GetParticipantType(IntId(u)))}}

\* ChatService.mark_as_read, lines 291-302: the update_many filter
MarkAsReadMatch(m, uid) ==
  /\ m.sender_id # uid
  /\ ~\E i \in DOMAIN m.read_by : m.read_by[i].user_id = uid

\* ChatService.mark_messages_as_read, lines 1798-1812: the update_many filter
MarkMessagesAsReadMatch(m, uid, utype, mid) ==
  /\ m.sender_id # uid
  /\ ~\E i \in DOMAIN m.read_by :
        m.read_by[i].user_id = uid /\ m.read_by[i].user_type = utype
  /\ mid # 0 => m.message_id = mid

\* $addToSet read_by {user_id, user_type, timestamp}
AddReadBy(m, uid, utype, now) ==
  [m EXCEPT !.read_by =
     AddToSet(@, [user_id |-> uid, user_type |-> utype, timestamp |-> now])]

\* ChatService.mark_as_read, lines 291-312: the update_many
MarkAsRead(coll, uid, utype, now) ==
  [i \in DOMAIN coll |-> IF MarkAsReadMatch(coll[i], uid)
                           THEN AddReadBy(coll[i], uid, utype, now)
                           ELSE coll[i]]

\* ChatService.mark_messages_as_read: the update_many
MarkMessagesAsRead(coll, uid, utype, mid, now) ==
  [i \in DOMAIN coll |-> IF MarkMessagesAsReadMatch(coll[i], uid, utype, mid)
                           THEN AddReadBy(coll[i], uid, utype, now)
                           ELSE coll[i]]

\* chat.mark_chat_as_read as a whole: get_participant_type, mark_as_read
\* (update_many, then unread reset), then the handler's own unread reset.
MarkChatAsRead(u) ==
  /\ clock < MaxClock
  /\ LET uid == IntId(u)
         ty == GetParticipantType(uid)
     IN IF ty = "none"
          THEN /\ lastOp' = Op("mark_read", u, 0, FALSE, FALSE)
               /\ UNCHANGED <<clock, messages, unread_counts>>
          ELSE /\ messages' = MarkAsRead(messages, uid, ty, clock)
               /\ unread_counts' = ResetUnread(unread_counts, UnreadKey(ty, uid))
               /\ clock' = clock + 1
               /\ lastOp' = Op("mark_read", u, 0, FALSE, TRUE)
  /\ UNCHANGED <<participants, last_message, last_activity, task, resp,
                 sendsOK, rtVars, outbox, inviteVars>>

\* websocket_chat.handle_websocket_message, the "mark_read" branch:
\* mark_messages_as_read with the str id, type "user" and the frame's
\* optional message_id (0: absent).
WsMarkRead(u, mid) ==
  /\ clock < MaxClock
  /\ sock[u] = "open"
  /\ LET uid == StrId(u)
     IN /\ messages' = MarkMessagesAsRead(messages, uid, "user", mid, clock)
        /\ clock' = clock + 1
        /\ lastOp' = Op("ws_mark_read", u, mid, FALSE, TRUE)
  /\ UNCHANGED <<chatVars, task, resp, sendsOK, rtVars, outbox, inviteVars>>

InitMsg ==
  /\ InitStore
  /\ participants = GroupParticipants
  /\ invite = NoInvite
  /\ sock = [u \in Users |-> "open"]
  /\ active_connections = Users

NextMsg ==
  \E u \in Users :
    \/ \E c \in SendContents : HttpSendWhole(u, c)
    \/ \E c \in SendContents : WsMessageWhole(u, c)
    \/ \E mid \in 1..MaxMsgs : \E everyone \in BOOLEAN : DeleteMessage(u, mid, everyone)
    \/ MarkChatAsRead(u)
    \/ \E mid \in 0..MaxMsgs : WsMarkRead(u, mid)

SpecMsg == InitMsg /\ [][NextMsg]_vars

\* --------------------------------------- properties of the message lifecycle
DeleteForSelfDone(op) ==
  op.op = "delete" /\ op.ok /\ ~op.everyone

\* C5: when participant A deletes message m with for_everyone=false, the
\* message list of every other participant B is what it was (m included,
\* with its original content), and m keeps its is_deleted flag, content and
\* attachment.
C5_DeleteForSelfLeavesOthers ==
  [][(lastOp' # lastOp /\ DeleteForSelfDone(lastOp')) =>
       /\ \A b \in Users \ {lastOp'.u} :
            IsParticipant(IntId(b)) => MessageList(b)' = MessageList(b)
       /\ messages'[lastOp'.mid].content = messages[lastOp'.mid].content
       /\ messages'[lastOp'.mid].is_deleted = messages[lastOp'.mid].is_deleted
       /\ messages'[lastOp'.mid].attachment = messages[lastOp'.mid].attachment]_vars

\* C5 witness: A has deleted a message for itself and another participant's
\* list still shows that message with its content.
C5_Witness ==
  /\ DeleteForSelfDone(lastOp)
  /\ \E b \in Users \ {lastOp.u} :
       /\ IsParticipant(IntId(b))
       /\ \E pm \in MessageList(b) :
            /\ pm.message_id = lastOp.mid
            /\ pm.content = messages[lastOp.mid].content
            /\ pm.content # Placeholder
  /\ \E i \in DOMAIN messages : messages[i].deleted_for # <<>>

\* the viewer a read_by entry stands for: the id's value and the kind
ViewerOf(e) == <<e.user_id.v, e.user_type>>

MarkReadDone(op) == op.op \in {"mark_read", "ws_mark_read"} /\ op.ok

\* C10: markRead is idempotent: after a markRead call no viewer (id + kind)
\* has more than one read_by entry on a message, and a call that repeats the
\* previous call's arguments leaves every read_by as the first call left it.
C10_MarkReadIdempotent ==
  [][(lastOp' # lastOp /\ MarkReadDone(lastOp')) =>
       /\ \A i \in DOMAIN messages' :
            \A j, k \in DOMAIN messages'[i].read_by :
              ViewerOf(messages'[i].read_by[j]) = ViewerOf(messages'[i].read_by[k])
                => j = k
       /\ (MarkReadDone(lastOp) /\ lastOp'.op = lastOp.op
           /\ lastOp'.u = lastOp.u /\ lastOp'.mid = lastOp.mid)
            => \A i \in DOMAIN messages :
                 messages'[i].read_by = messages[i].read_by]_vars

\* the unread counter of a participant: f"{user_type}_{user_id}"
ViewerKey(u) == UnreadKey(GetParticipantType(IntId(u)), IntId(u))

\* C18: after a markRead of a participant completes, through the HTTP
\* operation or the realtime mark_read frame, the viewer's unread counter
\* of the room is 0 and no other participant's counter has changed.
C18_MarkReadResetsUnread ==
  [][(/\ lastOp' # lastOp
      /\ MarkReadDone(lastOp')
      /\ GetParticipantType(IntId(lastOp'.u)) # "none") =>
       /\ unread_counts'[ViewerKey(lastOp'.u)] = 0
       /\ \A k \in DOMAIN unread_counts \ {ViewerKey(lastOp'.u)} :
            unread_counts'[k] = unread_counts[k]]_vars

\* chat.clear_chat_history, lines 1302-1305: p["id"] == current_user.user_id,
\* compared without str()
IsParticipantTyped(uid) == \E i \in DOMAIN participants : participants[i].id = uid

\* ChatService.clear_chat, lines 226-238: the entry added to deleted_for of
\* every message of the chat; its fields are id and type
ClearEntry(user_id, user_type, now) ==
  [id |-> user_id, type |-> user_type, cleared_at |-> now,
   clear_type |-> "clear_for_me"]

\* ChatService.clear_chat, lines 242-253: $set
\* settings.clear_history.{user_type}_{user_id}
SetClearHistory(old, user_id, user_type, now, last_message_id) ==
  [old EXCEPT !.clear_history =
     {h \in @ : h.key # UnreadKey(user_type, user_id)}
       \cup {[key |-> UnreadKey(user_type, user_id), cleared_at |-> now,
               cleared_until_msg_id |-> last_message_id]}]

\* chat.clear_chat_history as a whole: the participant check (403), then
\* ChatService.clear_chat with user_type "user": the update_many over the
\* chat's messages and the clear_history record.
ClearChatHistory(u) ==
  /\ clock < MaxClock
  /\ IF ~IsParticipantTyped(IntId(u))
       THEN /\ lastOp' = Op("clear", u, 0, FALSE, FALSE)
            /\ UNCHANGED <<clock, messages, settings>>
       ELSE /\ messages' = [i \in DOMAIN messages |->
                 [messages[i] EXCEPT !.deleted_for =
                    AddToSet(@, ClearEntry(IntId(u), "user", clock))]]
            /\ settings' = SetClearHistory(settings, IntId(u), "user", clock,
                                           Len(messages))
            /\ clock' = clock + 1
            /\ lastOp' = Op("clear", u, Len(messages), FALSE, TRUE)
  /\ UNCHANGED <<chatVars, task, resp, sendsOK, sock, active_connections,
                 ws_manager, http_manager, bcast, statuses, dealers, chats,
                 outbox,
                 inviteVars>>

\* sending, deleting for oneself and clearing the history
NextClear ==
  \E u \in Users :
    \/ \E c \in SendContents : HttpSendWhole(u, c)
    \/ \E mid \in 1..MaxMsgs : DeleteMessage(u, mid, FALSE)
    \/ ClearChatHistory(u)

SpecClear == InitMsg /\ [][NextClear]_vars

\* C33: after clear-chat-history by participant U, U's message list holds
\* none of the messages that existed when the call was made and every other
\* participant's list is unchanged; a caller who is not a participant is
\* rejected and nothing changes.
C33_ClearHidesHistory ==
  [][\A u \in Users :
       (lastOp' # lastOp /\ lastOp'.op = "clear" /\ lastOp'.u = u) =>
         IF IsParticipant(IntId(u))
           THEN /\ lastOp'.ok
                /\ \A pm \in MessageList(u)' :
                     pm.message_id \notin DOMAIN messages
                /\ \A b \in Users \ {u} :
                     IsParticipant(IntId(b)) => MessageList(b)' = MessageList(b)
           ELSE /\ ~lastOp'.ok
                /\ UNCHANGED <<messages, settings, chatVars>>]_vars

DeleteDone(op) == op.op = "delete" /\ op.ok

\* C31: delete with for_everyone=true succeeds only when the actor is the
\* message's original sender; on success the target message has
\* is_deleted=true, the placeholder as content, no attachment and deleted_by
\* recorded; a call by any other participant is rejected and leaves the
\* messages unchanged.
C31_DeleteForEveryone ==
  [][(lastOp' # lastOp /\ lastOp'.op = "delete" /\ lastOp'.everyone
      /\ lastOp'.mid \in DOMAIN messages) =>
       IF Str(messages[lastOp'.mid].sender_id) = Str(IntId(lastOp'.u))
          /\ IsParticipant(IntId(lastOp'.u))
         THEN /\ lastOp'.ok
              /\ messages'[lastOp'.mid].is_deleted
              /\ messages'[lastOp'.mid].content = Placeholder
              /\ messages'[lastOp'.mid].attachment = "none"
              /\ messages'[lastOp'.mid].deleted_by # NoDeletion
         ELSE ~lastOp'.ok /\ messages' = messages]_vars

\* C35: delete_message(message_id, ...), for self or for everyone, changes
\* only the message whose id is message_id: every other message keeps its
\* content, is_deleted flag, attachment and deleted_for.
C35_DeleteTouchesOnlyTarget ==
  [][(lastOp' # lastOp /\ DeleteDone(lastOp')) =>
       \A i \in DOMAIN messages \ {lastOp'.mid} :
         /\ messages'[i].content = messages[i].content
         /\ messages'[i].is_deleted = messages[i].is_deleted
         /\ messages'[i].attachment = messages[i].attachment
         /\ messages'[i].deleted_for = messages[i].deleted_for]_vars

\* ------------------------------------------------------- realtime endpoint
\* a filter that selects the caller's own messages only
MarkDeliveredOwnOnly(m, uid, utype) == m.sender_id = uid

\* ChatService.mark_messages_as_delivered, lines 1112-1123: the filter
MarkDeliveredMatch(m, uid, utype) ==
  /\ m.sender_id # uid
  /\ ~\E i \in DOMAIN m.delivered_to :
        m.delivered_to[i].user_id = uid /\ m.delivered_to[i].user_type = utype

\* ChatService.mark_messages_as_delivered, lines 1134-1145: $addToSet
AddDeliveredTo(m, uid, utype, now) ==
  [m EXCEPT !.delivered_to =
     AddToSet(@, [user_id |-> uid, user_type |-> utype, timestamp |-> now])]

\* ChatService.mark_messages_as_delivered: the update_many
MarkMessagesAsDelivered(coll, uid, utype, now) ==
  [i \in DOMAIN coll |-> IF MarkDeliveredMatch(coll[i], uid, utype)
                           THEN AddDeliveredTo(coll[i], uid, utype, now)
                           ELSE coll[i]]

\* the close code of a policy violation
PolicyViolation == 1008

\* the tokens a client may put in the path: the subject, whether the
\* signature verifies under SECRET_KEY, and whether exp has passed
Tokens == [sub : Users, sig : {"good", "bad"}, exp : {"live", "expired"}]

\* decode_access_token raises
DecodeError == [k |-> "raise", v |-> 401]

\* a decoder that reads the claims without verifying them
DecodeUnverified(token) == StrId(token.sub)

\* jwt.decode_access_token, lines 16-26: jwt.decode verifies the signature
\* and exp (JWTError: 401); the id is str(payload["sub"])
DecodeAccessToken(token) ==
  IF token.sig = "good" /\ token.exp = "live"
    THEN StrId(token.sub)
    ELSE DecodeError

\* websocket_chat.chat_websocket, lines 34-56: accept, decode the token; an
\* invalid token closes the transport with code 1008, a valid one stores the
\* websocket in the module's active_connections and sends
\* connection_established.  ConnectionManager.connect is never called.
WsConnect(u, valid) ==
  /\ sock[u] = "closed"
  /\ IF valid
       THEN /\ sock' = [sock EXCEPT ![u] = "open"]
            /\ active_connections' = active_connections \cup {u}
            /\ outbox' = [outbox EXCEPT ![u] = @ \cup
                            {[type |-> "connection_established", message_id |-> 0]}]
       ELSE UNCHANGED <<sock, active_connections, outbox>>
  /\ lastOp' = [Op("ws_connect", u, 0, FALSE, valid)
                  EXCEPT !.code = IF valid THEN 0 ELSE PolicyViolation]
  /\ UNCHANGED <<clock, chatVars, messages, task, resp, sendsOK, ws_manager,
                 http_manager, bcast, extVars, inviteVars>>

\* websocket_chat.chat_websocket, lines 34-56, for the token of the path
WsOpen(token) ==
  WsConnect(token.sub, DecodeAccessToken(token) # DecodeError)

\* websocket_chat.chat_websocket, lines 65-67 and 84-89: the receive loop
\* ends on WebSocketDisconnect; the finally clause drops the module's
\* active_connections entry.  ConnectionManager.disconnect is never called.
WsDisconnect(u) ==
  /\ sock[u] = "open"
  /\ sock' = [sock EXCEPT ![u] = "closed"]
  /\ active_connections' = active_connections \ {u}
  /\ lastOp' = Op("ws_disconnect", u, 0, FALSE, TRUE)
  /\ UNCHANGED <<clock, chatVars, messages, task, resp, sendsOK, ws_manager,
                 http_manager, bcast, extVars, outbox, inviteVars>>

\* websocket_chat.handle_websocket_message, lines 173-187: the "join_chat"
\* branch: manager.join_chat, mark_messages_as_delivered (update_many, then
\* the unread reset), joined_chat confirmation.
WsJoinChat(u) ==
  /\ clock < MaxClock
  /\ sock[u] = "open"
  /\ ws_manager' = JoinChat(ws_manager, u)
  /\ LET uid == StrId(u)
     IN /\ messages' = MarkMessagesAsDelivered(messages, uid, "user", clock)
        /\ unread_counts' = ResetUnread(unread_counts, UnreadKey("user", uid))
  /\ clock' = clock + 1
  /\ outbox' = [outbox EXCEPT ![u] = @ \cup
                  {[type |-> "joined_chat", message_id |-> 0]}]
  /\ lastOp' = Op("join_chat", u, 0, FALSE, TRUE)
  /\ UNCHANGED <<participants, last_message, last_activity, task, resp,
                 sendsOK, sock, active_connections, http_manager, bcast,
                 extVars, inviteVars>>

\* chat.get_chat_messages as a whole: get_chat and the participant check
\* (403), get_participant_type, the message list, then
\* mark_messages_as_delivered with the caller's int id and stored type
\* (update_many, then the unread reset).
FetchMessages(u) ==
  /\ clock < MaxClock
  /\ LET uid == IntId(u)
         ty == GetParticipantType(uid)
     IN IF ~IsParticipant(uid)
          THEN /\ lastOp' = Op("fetch", u, 0, FALSE, FALSE)
               /\ UNCHANGED <<clock, messages, unread_counts>>
          ELSE /\ messages' = MarkMessagesAsDelivered(messages, uid, ty, clock)
               /\ unread_counts' = ResetUnread(unread_counts, UnreadKey(ty, uid))
               /\ clock' = clock + 1
               /\ lastOp' = Op("fetch", u, 0, FALSE, TRUE)
  /\ UNCHANGED <<participants, last_message, last_activity, task, resp,
                 sendsOK, rtVars, outbox, inviteVars>>

\* chat.access_chat as a whole, lines 1228-1271: get_chat_details (404),
\* the message list for the caller's int id and type "user",
\* mark_messages_as_delivered with the same (update_many, then the unread
\* reset); the participants of the chat are not compared with the caller.
AccessChat(u) ==
  /\ clock < MaxClock
  /\ LET uid == IntId(u)
     IN /\ messages' = MarkMessagesAsDelivered(messages, uid, "user", clock)
        /\ unread_counts' = ResetUnread(unread_counts, UnreadKey("user", uid))
        /\ clock' = clock + 1
        /\ lastOp' = Op("access", u, 0, FALSE, TRUE)
  /\ UNCHANGED <<participants, last_message, last_activity, task, resp,
                 sendsOK, rtVars, outbox, inviteVars>>

\* sending, fetching the messages and accessing the chat over HTTP
NextAccess ==
  \E u \in Users :
    \/ \E c \in SendContents : HttpSendWhole(u, c)
    \/ FetchMessages(u)
    \/ AccessChat(u)

SpecAccess == InitMsg /\ [][NextAccess]_vars

\* C38: no HTTP operation, fetch-messages or access-chat, returns the room's
\* messages to, or changes delivered_to or unread_counts on behalf of, a
\* caller who is not a current participant of the room.
C38_NonParticipantGetsNothing ==
  [][(lastOp' # lastOp /\ lastOp'.op \in {"fetch", "access"}
      /\ ~IsParticipant(IntId(lastOp'.u))) =>
       /\ ~lastOp'.ok
       /\ messages' = messages
       /\ unread_counts' = unread_counts]_vars

\* sending, marking read and marking delivered (by fetching) over HTTP
NextUnread ==
  \E u \in Users :
    \/ \E c \in SendContents : HttpSendWhole(u, c)
    \/ MarkChatAsRead(u)
    \/ FetchMessages(u)

SpecUnread == InitMsg /\ [][NextUnread]_vars

\* the messages of the room a participant has not sent and has no read_by
\* entry on
UnreadMessages(p) ==
  {j \in DOMAIN messages :
     /\ Str(messages[j].sender_id) # Str(p.id)
     /\ ~\E k \in DOMAIN messages[j].read_by :
          ViewerOf(messages[j].read_by[k]) = <<p.id.v, p.type>>}

\* C40: whenever no operation on the room is in flight, each participant's
\* unread counter equals the number of the room's messages that the
\* participant did not send and that lack the participant's read_by entry.
C40_UnreadMatchesMessages ==
  AllIdle =>
    \A i \in DOMAIN participants :
      unread_counts[UnreadKey(participants[i].type, participants[i].id)]
        = Cardinality(UnreadMessages(participants[i]))

\* The room of InitSend with nobody connected.
InitRT ==
  /\ InitStore
  /\ participants = GroupParticipants
  /\ invite = NoInvite
  /\ sock = [u \in Users |-> "closed"]
  /\ active_connections = {}

NextRT ==
  \E u \in Users :
    \/ \E token \in {t \in Tokens : t.sub = u} : WsOpen(token)
    \/ WsDisconnect(u)
    \/ WsJoinChat(u)
    \/ FetchMessages(u)
    \/ \E c \in SendContents : HttpSendWhole(u, c)
    \/ \E c \in SendContents : WsMessageWhole(u, c)

SpecRT == InitRT /\ [][NextRT]_vars

SendDone(op) == op.op \in {"send", "ws_message"} /\ op.ok

\* C8: when participant B holds an authenticated open realtime connection
\* that has joined the room with a join_chat frame, the new_message event of
\* every successful send of another user (HTTP send or realtime "message"
\* frame) is sent on B's connection, and never on the sender's own.
C8_NewMessageReachesJoinedPeers ==
  [][(lastOp' # lastOp /\ SendDone(lastOp')) =>
       /\ \A b \in Users \ {lastOp'.u} :
            (IsParticipant(IntId(b)) /\ sock[b] = "open"
             /\ b \in ws_manager.chat_rooms)
              => NewMessageEvent(lastOp'.mid) \in outbox'[b]
       /\ NewMessageEvent(lastOp'.mid) \notin outbox'[lastOp'.u]]_vars

\* the frames the endpoint does not act on: text that is no JSON, JSON
\* that is no object, an object without chat_id, without type, with a type
\* that is none of message, join_chat and mark_read, and a message frame
\* without content
BadFrames == {"not_json", "not_object", "no_chat_id", "no_type",
              "unknown_type", "no_content"}

ErrorEvent == [type |-> "error", message_id |-> 0]

\* websocket_chat.chat_websocket, lines 63-77, and
\* handle_websocket_message, lines 93-111 and 198-205: whether the frame is
\* answered with an error event.  json.loads failing ends the iteration
\* with continue; data.get on a non-object raises inside the handler's try;
\* a frame whose type matches no branch falls through.
ErrorSent(kind) == kind \in {"not_object", "no_chat_id", "no_content"}

\* websocket_chat.chat_websocket, lines 59-77: one iteration of the receive
\* loop on a frame of BadFrames; the loop goes on
WsBadFrame(u, kind) ==
  /\ sock[u] = "open"
  /\ outbox' = [outbox EXCEPT ![u] =
                  IF ErrorSent(kind) THEN @ \cup {ErrorEvent} ELSE @]
  /\ lastOp' = Op("ws_frame", u, 0, FALSE, ErrorSent(kind))
  /\ UNCHANGED <<clock, chatVars, messages, task, resp, sendsOK, rtVars,
                 inviteVars>>

\* the connections of the realtime endpoint: opening, joining the room,
\* frames that are not acted on, and the end of the receive loop
NextConn ==
  \/ \E token \in Tokens : WsOpen(token)
  \/ \E u \in Users : WsDisconnect(u)
  \/ \E u \in Users : WsJoinChat(u)
  \/ \E u \in Users : \E kind \in BadFrames : WsBadFrame(u, kind)

SpecConn == InitRT /\ [][NextConn]_vars

\* the tokens that are no valid credential
InvalidTokens == {t \in Tokens : t.sig # "good" \/ t.exp # "live"}

\* the handlers of the frames of a connection
FrameOps == {"join_chat", "ws_message", "ws_mark_read"}

\* C26: a connection opened with an invalid token is closed with code 1008
\* and is never authenticated: it is not added to active_connections, it
\* is sent no connection_established event (nothing at all), and none of
\* its frames is processed: frames are handled on open connections only.
C26_InvalidTokenRejected ==
  [][/\ \A t \in InvalidTokens :
          WsOpen(t) =>
            /\ lastOp'.code = PolicyViolation
            /\ sock'[t.sub] = "closed"
            /\ t.sub \notin active_connections'
            /\ outbox' = outbox
            /\ messages' = messages /\ ws_manager' = ws_manager
            /\ unread_counts' = unread_counts
     /\ (lastOp' # lastOp /\ lastOp'.op \in FrameOps) =>
          sock[lastOp'.u] = "open" /\ lastOp'.u \in active_connections
     /\ \A u \in Users : u \in active_connections' <=> sock'[u] = "open"]_vars

\* C26 witness: a connection attempt was closed with 1008 while another
\* user holds an authenticated connection
C26_Witness ==
  /\ lastOp.op = "ws_connect" /\ ~lastOp.ok /\ lastOp.code = PolicyViolation
  /\ sock[lastOp.u] = "closed"
  /\ \E v \in Users : sock[v] = "open" /\ v \in ws_manager.chat_rooms

\* C27: once a connection's transport has disconnected and its receive
\* loop has ended, its connection id is in no room's connection set and in
\* no live-connection map.
C27_DisconnectLeavesRooms ==
  [][(lastOp' # lastOp /\ lastOp'.op = "ws_disconnect") =>
       /\ lastOp'.u \notin active_connections'
       /\ lastOp'.u \notin ws_manager'.active_connections
       /\ lastOp'.u \notin ws_manager'.chat_rooms]_vars

\* C28: every frame that is no valid JSON, lacks a required field or has
\* an unrecognized type is answered with an error event on the same
\* connection, and the connection stays open for later frames.
C28_BadFrameAnswered ==
  [][\A u \in Users : \A kind \in BadFrames :
       WsBadFrame(u, kind) =>
         /\ lastOp'.ok /\ ErrorEvent \in outbox'[u]
         /\ sock'[u] = "open" /\ u \in active_connections']_vars

\* C37: a room's connection set only ever holds connections of current
\* participants: a user who is not a participant is not registered by a
\* join_chat frame, receives none of the room's events and has no delivery
\* receipt recorded on the room's messages.
C37_RoomHoldsParticipantsOnly ==
  \A u \in Users :
    ~IsParticipant(StrId(u)) =>
      /\ u \notin ws_manager.chat_rooms
      /\ \A e \in outbox[u] : e.type \notin {"new_message", "new_reply"}
      /\ \A i \in DOMAIN messages : \A j \in DOMAIN messages[i].delivered_to :
           messages[i].delivered_to[j].user_id.v # u

\* the transports a client may hold at the same time; c is the transport, as
\* the token names the user: a user may open several
ConnSlots == {1, 2, 3}

\* websocket_chat.chat_websocket, lines 34-56, one call per transport: accept,
\* decode the token (invalid: close 1008), active_connections[user_id] =
\* websocket, connection_established, then the receive loop
WsAccept(c, token) ==
  /\ task[c].op = "idle" /\ sock[c] = "closed"
  /\ IF DecodeAccessToken(token) = DecodeError
       THEN /\ lastOp' = [Op("ws_connect", token.sub, 0, FALSE, FALSE)
                            EXCEPT !.code = PolicyViolation]
            /\ UNCHANGED <<sock, active_connections, outbox, task>>
       ELSE /\ sock' = [sock EXCEPT ![c] = "open"]
            /\ task' = [task EXCEPT ![c] =
                 [Idle EXCEPT !.op = "ws", !.pc = "ws_loop",
                              !.uid = DecodeAccessToken(token)]]
            /\ active_connections' = active_connections \cup {token.sub}
            /\ outbox' = [outbox EXCEPT ![token.sub] = @ \cup
                            {[type |-> "connection_established", message_id |-> 0]}]
            /\ lastOp' = Op("ws_connect", token.sub, 0, FALSE, TRUE)
  /\ UNCHANGED <<clock, chatVars, messages, resp, sendsOK, ws_manager,
                 http_manager, bcast, extVars, inviteVars>>

\* websocket_chat.chat_websocket, lines 65-67 and 84-89: the transport's
\* receive loop ends on WebSocketDisconnect and the finally clause deletes
\* active_connections[user_id], whatever websocket is stored there (the
\* last_seen update of the users collection is not modelled)
WsClose(c) ==
  /\ task[c].pc = "ws_loop"
  /\ sock' = [sock EXCEPT ![c] = "closed"]
  /\ active_connections' = active_connections \ {task[c].uid.v}
  /\ lastOp' = Op("ws_disconnect", task[c].uid.v, 0, FALSE, TRUE)
  /\ task' = [task EXCEPT ![c] = Idle]
  /\ UNCHANGED <<clock, chatVars, messages, resp, sendsOK, ws_manager,
                 http_manager, bcast, extVars, outbox, inviteVars>>

NextReconnect ==
  \E c \in ConnSlots :
    \/ \E token \in Tokens : WsAccept(c, token)
    \/ WsClose(c)

SpecReconnect == InitRT /\ [][NextReconnect]_vars

\* C39: every user with an open authenticated realtime connection has an
\* entry in active_connections: when a user opens a second connection and
\* the first one closes, the cleanup of the first leaves the entry of the
\* second, still open, in place.
C39_OpenConnectionHasEntry ==
  \A c \in ConnSlots :
    (task[c].pc = "ws_loop" /\ sock[c] = "open")
      => task[c].uid.v \in active_connections

\* ------------------------------------------- ConnectionManager, on its own
\* The class driven directly, on the instance held in ws_manager, through
\* the methods the endpoints call (connect, join_chat, broadcast_to_chat):
\* connection ids are the users', sock is the state of each connection's
\* transport (send_json raises on a closed one), outbox what send_json has
\* written.
MaxBroadcasts == 2

\* an awaited call of another coroutine between two iterations of a running
\* broadcast_to_chat loop; began and failed are kept for an undisturbed
\* broadcast only
Disturb(b) ==
  IF b.pc = "loop"
    THEN [b EXCEPT !.quiet = FALSE, !.began = {}, !.failed = {}]
    ELSE b

\* ConnectionManager.disconnect, lines 19-23
Disconnect(mgr, cid) ==
  IF cid \in mgr.active_connections
    THEN [active_connections |-> mgr.active_connections \ {cid},
          chat_rooms |-> mgr.chat_rooms \ {cid}]
    ELSE mgr

mgrFrame == <<clock, chatVars, messages, task, resp, sendsOK,
              active_connections, http_manager, extVars, inviteVars, lastOp>>

\* ConnectionManager.connect, lines 14-15
MgrConnect(c) ==
  /\ sock[c] = "closed"
  /\ sock' = [sock EXCEPT ![c] = "open"]
  /\ ws_manager' = [ws_manager EXCEPT !.active_connections = @ \cup {c}]
  /\ bcast' = Disturb(bcast)
  /\ UNCHANGED <<mgrFrame, outbox>>

\* the peer goes away; the manager is not told
TransportDrop(c) ==
  /\ sock[c] = "open"
  /\ sock' = [sock EXCEPT ![c] = "closed"]
  /\ bcast' = Disturb(bcast)
  /\ UNCHANGED <<mgrFrame, ws_manager, outbox>>

\* ConnectionManager.join_chat, lines 25-29.  Whether a running iteration
\* of the room's set visits an element added meanwhile depends on the slot
\* it hashes to.
MgrJoinChat(c) ==
  /\ c \notin ws_manager.chat_rooms
  /\ ws_manager' = JoinChat(ws_manager, c)
  /\ \E seen \in BOOLEAN :
       bcast' = IF bcast.pc = "loop"
                  THEN [Disturb(bcast) EXCEPT
                          !.todo = IF seen THEN @ \cup {c} ELSE @]
                  ELSE bcast
  /\ UNCHANGED <<mgrFrame, sock, outbox>>

\* ConnectionManager.broadcast_to_chat, lines 47-48: the for statement takes
\* an iterator of the room's set, which remembers the set's size.
BroadcastBegin(exclude) ==
  /\ bcast.pc = "idle"
  /\ bcast.id < MaxBroadcasts
  /\ bcast' = [pc |-> "loop", id |-> bcast.id + 1, exclude |-> exclude,
               used |-> Cardinality(ws_manager.chat_rooms),
               todo |-> ws_manager.chat_rooms,
               began |-> {c \in BroadcastTargets(ws_manager, exclude) :
                            sock[c] = "open"},
               failed |-> {}, quiet |-> TRUE]
  /\ UNCHANGED <<mgrFrame, sock, ws_manager, outbox>>

\* ConnectionManager.broadcast_to_chat, lines 48-56: one iteration.  The
\* set iterator raises RuntimeError (Set changed size during iteration) when
\* the set's size differs from the one it remembers, ends when nothing is
\* left, and otherwise yields an element in the set's own order; the body
\* sends to it, and on a send failure calls disconnect.
BroadcastNext ==
  /\ bcast.pc = "loop"
  /\ LET room == ws_manager.chat_rooms
         left == bcast.todo \cap room
     IN IF Cardinality(room) # bcast.used
          THEN /\ bcast' = [bcast EXCEPT !.pc = "aborted"]
               /\ UNCHANGED <<ws_manager, outbox>>
        ELSE IF left = {}
          THEN /\ bcast' = [bcast EXCEPT !.pc = "done"]
               /\ UNCHANGED <<ws_manager, outbox>>
        ELSE \E c \in left :
               IF c = bcast.exclude \/ c \notin ws_manager.active_connections
                 THEN /\ bcast' = [bcast EXCEPT !.todo = left \ {c}]
                      /\ UNCHANGED <<ws_manager, outbox>>
               ELSE IF sock[c] = "open"
                 THEN /\ outbox' = Deliver(outbox, {c}, NewMessageEvent(bcast.id))
                      /\ bcast' = [bcast EXCEPT !.todo = left \ {c}]
                      /\ UNCHANGED ws_manager
               ELSE /\ ws_manager' = Disconnect(ws_manager, c)
                    /\ bcast' = [bcast EXCEPT
                                   !.todo = left \ {c},
                                   !.failed = IF bcast.quiet THEN @ \cup {c}
                                                             ELSE @]
                    /\ UNCHANGED outbox
  /\ UNCHANGED <<mgrFrame, sock>>

\* the call returns, or its exception reaches the caller
BroadcastEnd ==
  /\ bcast.pc \in {"done", "aborted"}
  /\ bcast' = [NoBroadcast EXCEPT !.id = bcast.id]
  /\ UNCHANGED <<mgrFrame, sock, ws_manager, outbox>>

InitMgr ==
  /\ InitStore
  /\ participants = GroupParticipants
  /\ invite = NoInvite
  /\ sock = [u \in Users |-> "closed"]
  /\ active_connections = {}

NextMgr ==
  \/ \E c \in Users :
       \/ MgrConnect(c)
       \/ TransportDrop(c)
       \/ MgrJoinChat(c)
  \/ \E exclude \in Users \cup {0} : BroadcastBegin(exclude)
  \/ BroadcastNext
  \/ BroadcastEnd

SpecMgr == InitMgr /\ [][NextMgr]_vars

\* C9: a broadcast in which the send to one member connection failed, and
\* which no other caller of the manager interleaved with, runs to its end:
\* the failed connection is disconnected and the payload has been sent to
\* every other non-excluded member connection that was live when the
\* broadcast began; it is not aborted.
C9_FailureDoesNotAbortFanOut ==
  (bcast.pc \in {"done", "aborted"} /\ bcast.quiet /\ bcast.failed # {})
    => /\ bcast.pc = "done"
       /\ bcast.failed \cap ws_manager.chat_rooms = {}
       /\ \A c \in bcast.began : NewMessageEvent(bcast.id) \in outbox[c]

\* --------------------------------------------------------- message content
\* The handlers that rewrite one message document (react, edit, delete,
\* reply), step by step where they read and write in separate store calls.
Emojis == {"+1", "heart"}

\* reactions.get(emoji, [])
EmojiReactions(reactions, emoji) ==
  IF emoji \in DOMAIN reactions THEN reactions[emoji] ELSE <<>>

\* list.remove: the list without its element at index i
RemoveAt(seq, i) ==
  [j \in 1..(Len(seq) - 1) |-> IF j < i THEN seq[j] ELSE seq[j + 1]]

\* a toggle that writes back the emptied list instead of dropping the key
ToggleKeepsEmptyKey(reactions, uid, emoji, now) ==
  LET list == EmojiReactions(reactions, emoji)
      mine == {i \in DOMAIN list : list[i].user_id = uid}
      new == IF mine # {} THEN RemoveAt(list, MinOf(mine))
             ELSE Append(list, [user_id |-> uid, timestamp |-> now])
  IN [e \in DOMAIN reactions \cup {emoji} |->
        IF e = emoji THEN new ELSE reactions[e]]

\* ChatService.toggle_message_reaction, lines 1382-1404: the new mapping
ToggleReaction(reactions, uid, emoji, now) ==
  LET list == EmojiReactions(reactions, emoji)
      mine == {i \in DOMAIN list : list[i].user_id = uid}
      new == IF mine # {} THEN RemoveAt(list, MinOf(mine))
             ELSE Append(list, [user_id |-> uid, timestamp |-> now])
  IN IF new # <<>>
       THEN [e \in DOMAIN reactions \cup {emoji} |->
               IF e = emoji THEN new ELSE reactions[e]]
       ELSE [e \in DOMAIN reactions \ {emoji} |-> reactions[e]]

\* the handler returns its result
Finish(u) ==
  /\ resp' = [resp EXCEPT ![u] = "ok"]
  /\ task' = [task EXCEPT ![u] = Idle]

\* chat.react_to_message / ChatService.toggle_message_reaction, lines
\* 1378-1404: get_message (absent: ValueError, answered 500), then the new
\* mapping is computed in the handler.
ReactRead(u, mid, emoji) ==
  /\ task[u].op = "idle"
  /\ clock < MaxClock
  /\ IF mid \notin DOMAIN messages
       THEN /\ Reject(u)
            /\ UNCHANGED clock
       ELSE /\ task' = [task EXCEPT ![u] =
                 [Idle EXCEPT !.op = "react", !.pc = "react_write",
                              !.uid = IntId(u), !.mid = mid, !.t = clock,
                              !.content = emoji,
                              !.reactions = ToggleReaction(messages[mid].reactions,
                                              IntId(u), emoji, clock)]]
            /\ clock' = clock + 1
            /\ UNCHANGED resp
  /\ UNCHANGED <<chatVars, messages, sendsOK, sendFrame, outbox>>

\* ChatService.toggle_message_reaction, lines 1407-1410: $set reactions;
\* the broadcast on chat.manager follows.
ReactWrite(u) ==
  /\ task[u].pc = "react_write"
  /\ messages' = [messages EXCEPT ![task[u].mid].reactions = task[u].reactions]
  /\ Finish(u)
  /\ outbox' = Deliver(outbox, BroadcastTargets(http_manager, 0),
                       [type |-> "reaction_updated", message_id |-> task[u].mid])
  /\ UNCHANGED <<clock, chatVars, sendsOK, sendFrame>>

EditContents == {"v2"}

\* the requests that may carry an edit
EditSlots == {1, 2}

\* ChatService.edit_message, lines 1597-1602: the entry the edit appends
EditEntry(m, now) ==
  [previous_content |-> m.content, edited_at |-> now]

\* chat.edit_message, lines 1615-1619: except Exception catches whatever
\* the try block raised, the handler's own HTTPException included, and
\* answers 500
Caught(raised) == "500"

\* the request ends with the answer of the except clause
Fail(r, raised) ==
  /\ resp' = [resp EXCEPT ![r] = Caught(raised)]
  /\ task' = [task EXCEPT ![r] = Idle]

\* chat.edit_message, lines 1583-1594: get_message (absent: 404) and the
\* sender check (403), both raised inside the try block; the request ends
\* with nothing written.  r is the request, u the authenticated user: a
\* user may have several requests in flight.
EditBegin(r, u, mid, c) ==
  /\ task[r].op = "idle"
  /\ IF mid \notin DOMAIN messages
       THEN Fail(r, "404")
       ELSE IF Str(messages[mid].sender_id) # Str(IntId(u))
       THEN Fail(r, "403")
       ELSE /\ task' = [task EXCEPT ![r] =
                 [Idle EXCEPT !.op = "edit", !.pc = "edit_read",
                              !.uid = IntId(u), !.mid = mid, !.content = c]]
            /\ UNCHANGED resp
  /\ UNCHANGED <<clock, chatVars, messages, sendsOK, sendFrame, outbox>>

\* ChatService.edit_message, lines 1587-1605: get_message again, the
\* is_deleted check (ValueError), and the new history built from the
\* document that was read.
EditRead(r) ==
  /\ task[r].pc = "edit_read"
  /\ clock < MaxClock
  /\ IF messages[task[r].mid].is_deleted
       THEN /\ Fail(r, "ValueError")
            /\ UNCHANGED clock
       ELSE /\ task' = [task EXCEPT ![r].pc = "edit_update",
                                    ![r].t = clock,
                                    ![r].edit_history =
                          Append(messages[task[r].mid].edit_history,
                                 EditEntry(messages[task[r].mid], clock))]
            /\ clock' = clock + 1
            /\ UNCHANGED resp
  /\ UNCHANGED <<chatVars, messages, sendsOK, sendFrame, outbox>>

\* ChatService.edit_message, lines 1608-1618: the $set of the update
EditUpdateOf(m, content, history) ==
  [m EXCEPT !.content = content, !.is_edited = TRUE,
            !.edit_history = history]

\* ChatService.edit_message, lines 1607-1627, and chat.edit_message,
\* lines 1600-1612: update_one, then the message_edited broadcast.
EditUpdate(r) ==
  /\ task[r].pc = "edit_update"
  /\ messages' = [messages EXCEPT ![task[r].mid] =
                    EditUpdateOf(@, task[r].content, task[r].edit_history)]
  /\ Finish(r)
  /\ outbox' = Deliver(outbox, BroadcastTargets(http_manager, 0),
                       [type |-> "message_edited", message_id |-> task[r].mid])
  /\ UNCHANGED <<clock, chatVars, sendsOK, sendFrame>>

\* chat.reply_to_message, lines 1335-1350: the snapshot of the original
ReplyTo(orig) ==
  [message_id |-> orig,
   content |-> messages[orig].content,
   sender_id |-> messages[orig].sender_id]

\* chat.reply_to_message as a whole: get_message (absent: the 404 is
\* answered 500), get_participant_type, a ChatMessage carrying ReplyTo,
\* add_message (which stores the fields of MessageDict only), and the
\* new_reply broadcast to every joined connection.
ReplyWhole(u, orig, c) ==
  /\ Len(messages) < MaxMsgs /\ clock < MaxClock
  /\ LET uid == IntId(u)
         ty == GetParticipantType(uid)
         mid == Len(messages) + 1
     IN IF orig \notin DOMAIN messages \/ ty = "none"
          THEN /\ lastOp' = Op("reply", u, orig, FALSE, FALSE)
               /\ UNCHANGED <<clock, chatVars, messages, sendsOK, outbox>>
          ELSE /\ messages' = InsertOne(messages, MessageDict(mid, uid, ty, c, clock))
               /\ last_message' = LastMessageOf(mid, uid, ty, c, clock)
               /\ last_activity' = clock
               /\ outbox' = Deliver(outbox, BroadcastTargets(http_manager, 0),
                                    [type |-> "new_reply", message_id |-> mid])
               /\ clock' = clock + 1
               /\ lastOp' = Op("reply", u, orig, FALSE, TRUE)
               /\ UNCHANGED <<participants, unread_counts, sendsOK>>
  /\ UNCHANGED <<task, resp, rtVars, inviteVars>>

ContentStep(u) ==
  \/ \E c \in SendContents : HttpSendWhole(u, c)
  \/ \E mid \in 1..MaxMsgs : \E emoji \in Emojis : ReactRead(u, mid, emoji)
  \/ ReactWrite(u)

\* sending, editing, deleting for everyone and replying
EditStep(u) ==
  \/ \E c \in SendContents : HttpSendWhole(u, c)
  \/ \E r \in EditSlots : \E mid \in 1..MaxMsgs : \E c \in EditContents :
       EditBegin(r, u, mid, c)
  \/ EditRead(u)
  \/ EditUpdate(u)
  \/ \E mid \in 1..MaxMsgs : DeleteMessage(u, mid, TRUE)
  \/ \E orig \in 1..MaxMsgs : \E c \in SendContents : ReplyWhole(u, orig, c)

NextEdit == \E u \in Users : EditStep(u)

SpecEdit == InitMsg /\ [][NextEdit]_vars

NextContent == \E u \in Users : ContentStep(u)

SpecContent == InitMsg /\ [][NextContent]_vars

\* who has reacted with what: emoji -> the reacting users
Reactors(reactions) ==
  [e \in DOMAIN reactions |->
     {reactions[e][i].user_id : i \in DOMAIN reactions[e]}]

\* the user has an entry under the emoji
HasReacted(reactions, uid, emoji) ==
  \E i \in DOMAIN EmojiReactions(reactions, emoji) :
    EmojiReactions(reactions, emoji)[i].user_id = uid

\* the mapping after the same user toggles the same emoji twice in a row
ToggledTwice(reactions, uid, emoji) ==
  ToggleReaction(ToggleReaction(reactions, uid, emoji, clock),
                 uid, emoji, clock + 1)

\* C11 as stated: for every message, user and emoji, two toggles in a row
\* by the same user with the same emoji give back the reactions mapping as it
\* was, with no empty emoji key.
C11_ToggleTwiceIsIdentity ==
  \A i \in DOMAIN messages : \A u \in Users : \A e \in Emojis :
    LET r == messages[i].reactions
        rr == ToggledTwice(r, IntId(u), e)
    IN /\ rr = r
       /\ \A k \in DOMAIN rr : rr[k] # <<>>

\* C11 amended: two toggles in a row give back the mapping as it was when
\* the user had no entry under the emoji; when the user had one, the same
\* users have reacted with the same emojis afterwards (the user's entry is
\* a new one, with a new timestamp, at the end of the list).  In both cases
\* the user has as many entries as before and no emoji key is empty.
C11_ToggleTwiceKeepsReactors ==
  \A i \in DOMAIN messages : \A u \in Users : \A e \in Emojis :
    LET r == messages[i].reactions
        rr == ToggledTwice(r, IntId(u), e)
    IN /\ ~HasReacted(r, IntId(u), e) => rr = r
       /\ Reactors(rr) = Reactors(r)
       /\ \A k \in DOMAIN rr : rr[k] # <<>>
       /\ \A k \in DOMAIN ToggleReaction(r, IntId(u), e, clock) :
            ToggleReaction(r, IntId(u), e, clock)[k] # <<>>

\* C11 witness: a message on which two users have reacted with the same
\* emoji and a third has not, so that both cases of the double toggle occur.
C11_Witness ==
  \E i \in DOMAIN messages : \E e \in Emojis : \E u \in Users :
    /\ Len(EmojiReactions(messages[i].reactions, e)) = 2
    /\ HasReacted(messages[i].reactions, IntId(u), e)
    /\ \E v \in Users : ~HasReacted(messages[i].reactions, IntId(v), e)

\* the request of user u writes its reactions mapping in this step
ReactDone(u) == task[u].pc = "react_write" /\ task'[u].pc = "idle"

\* C32: concurrent react calls on the same message by different users or
\* with different emojis are all reflected in the reactions mapping: the
\* write of one toggle leaves every other (user, emoji) entry as the store
\* had it; and in every state a user has at most one entry per emoji and no
\* emoji key maps to an empty list.
C32_ConcurrentReactsKept ==
  [][/\ \A u \in Users :
          ReactDone(u) =>
            \A v \in Users : \A e \in Emojis :
              (v # u \/ e # task[u].content) =>
                (HasReacted(messages'[task[u].mid].reactions, IntId(v), e)
                   <=> HasReacted(messages[task[u].mid].reactions, IntId(v), e))
     /\ \A i \in DOMAIN messages' : \A e \in DOMAIN messages'[i].reactions :
          /\ messages'[i].reactions[e] # <<>>
          /\ \A j, k \in DOMAIN messages'[i].reactions[e] :
               messages'[i].reactions[e][j].user_id
                 = messages'[i].reactions[e][k].user_id => j = k]_vars

\* C16: in every reachable state, whatever the interleaving of an edit and
\* a delete-for-everyone of the same message, a message with is_deleted
\* true has the deletion placeholder as its content and no attachment.
C16_DeletedIsPlaceholder ==
  \A i \in DOMAIN messages :
    messages[i].is_deleted =>
      /\ messages[i].content = Placeholder
      /\ messages[i].attachment = "none"

\* the request r completes a successful edit in this step
EditDone(r) == task[r].pc = "edit_update" /\ task'[r].pc = "idle"

\* C17: every successful edit appends exactly one entry to edit_history,
\* holding the content the message had immediately before the edit, and
\* no other step changes edit_history; so k successful edits leave exactly
\* k entries in edit order and no entry is ever changed or removed.
C17_EditAppendsPrevious ==
  [][\A i \in DOMAIN messages :
       LET done == {r \in Users : EditDone(r) /\ task[r].mid = i}
       IN IF done = {}
            THEN messages'[i].edit_history = messages[i].edit_history
            ELSE \E r \in done :
                   messages'[i].edit_history =
                     Append(messages[i].edit_history,
                            [previous_content |-> messages[i].content,
                             edited_at |-> task[r].t])]_vars

\* the answers that name an operation invalid for the message's state
InvalidStateAnswers == {"400", "409"}

\* C30: an edit of an absent message is answered NotFound (404), one by a
\* user who is not the sender Forbidden (403), one of a message deleted
\* for everyone InvalidState; in each case the message's content,
\* is_edited flag and edit_history are unchanged.
C30_EditFailures ==
  [][/\ \A r \in EditSlots : \A u \in Users : \A mid \in 1..MaxMsgs :
          \A c \in EditContents :
            EditBegin(r, u, mid, c) =>
              /\ mid \notin DOMAIN messages =>
                   resp'[r] = "404" /\ messages' = messages
              /\ (/\ mid \in DOMAIN messages
                  /\ Str(messages[mid].sender_id) # Str(IntId(u))) =>
                   resp'[r] = "403" /\ messages' = messages
     /\ \A r \in EditSlots :
          (EditRead(r) /\ messages[task[r].mid].is_deleted) =>
            resp'[r] \in InvalidStateAnswers /\ messages' = messages]_vars

\* a reply handler has run in this step
ReplyDone == lastOp'.op = "reply" /\ lastOp' # lastOp

\* C20: a reply to an absent original fails and stores nothing; a
\* successful reply persists a new message whose reply_to holds the
\* original's id, its content at reply time and its sender; and no later
\* step (an edit or a delete of the original included) changes the
\* reply_to of a stored message.
C20_ReplyCarriesSnapshot ==
  [][/\ ReplyDone =>
          IF lastOp'.mid \notin DOMAIN messages
            THEN ~lastOp'.ok /\ messages' = messages
            ELSE lastOp'.ok =>
                   /\ Len(messages') = Len(messages) + 1
                   /\ messages'[Len(messages')].reply_to = ReplyTo(lastOp'.mid)
     /\ \A i \in DOMAIN messages :
          messages'[i].reply_to = messages[i].reply_to]_vars

\* -------------------------------------------------------- group management
\* the ids of an admin list
AdminIds(admins) == {admins[i].id.v : i \in DOMAIN admins}

\* ChatService.is_group_admin: $elemMatch {id: user_id, role: "admin"}
IsGroupAdmin(uid) ==
  \E i \in DOMAIN settings.group_admins :
    settings.group_admins[i].id = uid /\ settings.group_admins[i].role = "admin"

\* a lookup that does not leave the caller out
GetAllAdmins(uid) == settings.group_admins

\* ChatService.get_other_admins, lines 1466-1470
GetOtherAdmins(uid) ==
  SelectSeq(settings.group_admins, LAMBDA a : Str(a.id) # Str(uid))

\* list(set(admin_ids)): the ids in the order the set yields them
ListOfSet(S) ==
  CHOOSE seq \in [1..Cardinality(S) -> S] :
    \A i, j \in 1..Cardinality(S) : i < j => seq[i] < seq[j]

\* an update that appends every requested id, admin already or not
NewAdminsUnfiltered(admin_ids, current_admins, by, now) ==
  [i \in 1..Cardinality(admin_ids) |->
     [id |-> IntId(ListOfSet(admin_ids)[i]), type |-> "user", role |-> "admin",
      added_by |-> by, added_at |-> now]]

\* ChatService.update_group_admins, lines 782-797: the entries of the
\* requested ids that are not admins yet
NewAdmins(admin_ids, current_admins, by, now) ==
  LET fresh == admin_ids \ AdminIds(current_admins)
  IN [i \in 1..Cardinality(fresh) |->
        [id |-> IntId(ListOfSet(fresh)[i]), type |-> "user", role |-> "admin",
         added_by |-> by, added_at |-> now]]

groupFrame == <<clock, unread_counts, last_message, last_activity, messages,
                sendsOK, sendFrame>>

\* chat.update_group_admins, lines 818-830: get_chat
GrantBegin(u, ids) ==
  /\ task[u].op = "idle"
  /\ task' = [task EXCEPT ![u] =
       [Idle EXCEPT !.op = "grant", !.pc = "g_isadmin", !.uid = IntId(u),
                    !.admin_ids = ids,
                    !.parts = {participants[i].id.v : i \in DOMAIN participants}]]
  /\ UNCHANGED <<groupFrame, participants, resp, outbox>>

\* chat.update_group_admins, lines 832-860: is_group_admin (403), the list
\* must not be empty (400), every id must be a participant of the chat read
\* before (400), the caller is added to the list.
GrantIsAdmin(u) ==
  /\ task[u].pc = "g_isadmin"
  /\ IF \/ ~IsGroupAdmin(task[u].uid)
        \/ task[u].admin_ids = {}
        \/ ~(task[u].admin_ids \subseteq task[u].parts)
       THEN Reject(u)
       ELSE /\ task' = [task EXCEPT ![u].pc = "g_read",
                                    ![u].admin_ids = @ \cup {u}]
            /\ UNCHANGED resp
  /\ UNCHANGED <<groupFrame, participants, outbox>>

\* ChatService.update_group_admins, lines 769-797: find_one, the current
\* admin list, utcnow() for the new entries
GrantRead(u) ==
  /\ task[u].pc = "g_read"
  /\ clock < MaxClock
  /\ task' = [task EXCEPT ![u].pc = "g_write",
                          ![u].admins = settings.group_admins,
                          ![u].t = clock]
  /\ clock' = IF task[u].admin_ids \subseteq AdminIds(settings.group_admins)
                THEN clock ELSE clock + 1
  /\ UNCHANGED <<unread_counts, last_message, last_activity, messages, sendsOK,
                 sendFrame, participants, resp, outbox>>

\* ChatService.update_group_admins, lines 799-806: $set group_admins to the
\* list read plus the new entries; the handler broadcasts and returns.
GrantWrite(u) ==
  /\ task[u].pc = "g_write"
  /\ settings' = [settings EXCEPT !.group_admins =
       task[u].admins \o NewAdmins(task[u].admin_ids, task[u].admins,
                                   task[u].uid, task[u].t)]
  /\ Finish(u)
  /\ outbox' = Deliver(outbox, BroadcastTargets(http_manager, 0),
                       [type |-> "admins_updated", message_id |-> 0])
  /\ UNCHANGED <<clock, chatVars, messages, sendsOK, sock, active_connections,
                 ws_manager, http_manager, bcast, statuses, dealers, chats,
                 inviteVars,
                 lastOp>>

\* chat.leave_group, line 1465: is_group_admin
LeaveBegin(u) ==
  /\ task[u].op = "idle"
  /\ task' = [task EXCEPT ![u] =
       [Idle EXCEPT !.op = "leave", !.uid = IntId(u),
                    !.pc = IF IsGroupAdmin(IntId(u)) THEN "lv_others"
                                                     ELSE "lv_remove"]]
  /\ UNCHANGED <<groupFrame, participants, resp, outbox>>

\* chat.leave_group, lines 1467-1472: get_other_admins; a sole admin gets
\* 400 (answered 500 by the handler's except clause)
LeaveOthers(u) ==
  /\ task[u].pc = "lv_others"
  /\ IF GetOtherAdmins(task[u].uid) = <<>>
       THEN Reject(u)
       ELSE /\ task' = [task EXCEPT ![u].pc = "lv_remove"]
            /\ UNCHANGED resp
  /\ UNCHANGED <<groupFrame, participants, outbox>>

\* ChatService.remove_group_member, lines 1443-1454: $pull participants
\* {id: user_id} (the removed_members audit records are not modelled); the
\* handler broadcasts member_left and returns.
LeaveRemove(u) ==
  /\ task[u].pc = "lv_remove"
  /\ participants' = SelectSeq(participants, LAMBDA p : p.id # task[u].uid)
  /\ Finish(u)
  /\ outbox' = Deliver(outbox, BroadcastTargets(http_manager, 0),
                       [type |-> "member_left", message_id |-> 0])
  /\ UNCHANGED <<groupFrame, unread_counts>>

GroupStep(u) ==
  \/ \E ids \in SUBSET Users : GrantBegin(u, ids)
  \/ GrantIsAdmin(u)
  \/ GrantRead(u)
  \/ GrantWrite(u)
  \/ LeaveBegin(u)
  \/ LeaveOthers(u)
  \/ LeaveRemove(u)

NextGroup == \E u \in Users : GroupStep(u)

SpecGroup == InitMsg /\ [][NextGroup]_vars

\* no id occurs twice in the admin list
NoDuplicateAdmins(admins) ==
  \A i, j \in DOMAIN admins : admins[i].id.v = admins[j].id.v => i = j

\* C12: a grantAdmins call by an admin with ids of current participants,
\* whose write finds the admin list as the call read it, leaves as admins
\* exactly the previous admins, the requested ids and the caller, every id
\* once; the previous entries are kept as they were, and when all requested
\* ids were admins already nothing changes.
C12_GrantAdminsMerges ==
  [][\A u \in Users :
       (task[u].pc = "g_write" /\ task'[u].op = "idle"
        /\ settings.group_admins = task[u].admins) =>
         /\ AdminIds(settings'.group_admins)
              = AdminIds(settings.group_admins) \cup task[u].admin_ids
         /\ u \in AdminIds(settings'.group_admins)
         /\ NoDuplicateAdmins(settings'.group_admins)
         /\ SubSeq(settings'.group_admins, 1, Len(settings.group_admins))
              = settings.group_admins
         /\ (task[u].admin_ids \subseteq AdminIds(settings.group_admins))
              => settings' = settings]_vars

\* C12 witness: admin 1 has granted [2]: the admins are exactly 1 and 2.
C12_Witness ==
  /\ AdminIds(settings.group_admins) = {1, 2}
  /\ Len(settings.group_admins) = 2
  /\ settings.group_admins[2].added_by = IntId(1)
  /\ resp[1] = "ok" /\ task[1].op = "idle"

\* the user is an admin and there is no other one
SoleAdmin(u) == AdminIds(settings.group_admins) = {u}

\* C13: a leave call that ends while the caller is the only admin fails and
\* leaves participants and admins as they were; one that ends otherwise
\* (a second admin has been granted) succeeds and the caller is no longer a
\* participant.
C13_SoleAdminCannotLeave ==
  [][\A u \in Users :
       (task[u].op = "leave" /\ task'[u].op = "idle") =>
         IF SoleAdmin(u)
           THEN /\ resp'[u] = "error"
                /\ participants' = participants
                /\ settings' = settings
           ELSE /\ resp'[u] = "ok"
                /\ ~IsParticipant(IntId(u))']_vars

\* C13 witness: user 1, the creator and first admin, has left after user 2
\* was made an admin.
C13_Witness ==
  /\ ~IsParticipant(IntId(1))
  /\ IsParticipant(IntId(2))
  /\ IsGroupAdmin(IntId(2))
  /\ resp[1] = "ok" /\ task[1].op = "idle"

\* C29: in every reachable state of the room, whatever grantAdmins and
\* leave calls have run, the room has at least one participant.
C29_ParticipantsNonEmpty == participants # <<>>

\* C36: in every reachable state of the group room every id in
\* settings.group_admins is a current participant: a user who has left is no
\* longer in the admin set and passes no admin check.
C36_AdminsAreParticipants ==
  \A u \in Users :
    (u \in AdminIds(settings.group_admins) \/ IsGroupAdmin(IntId(u)))
      => IsParticipant(IntId(u))

\* ------------------------------------------------------ delivery receipts
\* the message has a delivered_to entry of the user (whatever the kind)
DeliveredTo(m, u) ==
  \E i \in DOMAIN m.delivered_to : m.delivered_to[i].user_id.v = u

MarkDeliveredDone(op) == op.op \in {"fetch", "join_chat"} /\ op.ok

\* the kind a markDelivered call records: the participant's stored type on
\* the fetch path, "user" on the join_chat path
DeliveredKind(op) ==
  IF op.op = "fetch" THEN GetParticipantType(IntId(op.u)) ELSE "user"

\* the message has a delivered_to entry of the viewer (id and kind)
HasDeliveryEntry(m, u, kind) ==
  \E i \in DOMAIN m.delivered_to : ViewerOf(m.delivered_to[i]) = <<u, kind>>

\* C19: a markDelivered call, from the fetch path or the join_chat path,
\* appends one entry of the viewer to every message the viewer did not send
\* and that lacks one, leaves every other message's delivered_to alone, in
\* particular those the viewer sent, and a second identical call changes no
\* delivered_to.
C19_MarkDeliveredExact ==
  [][(lastOp' # lastOp /\ MarkDeliveredDone(lastOp')) =>
       LET u == lastOp'.u
           kind == DeliveredKind(lastOp')
       IN /\ \A i \in DOMAIN messages :
               IF messages[i].sender_id.v # u
                  /\ ~HasDeliveryEntry(messages[i], u, kind)
                 THEN /\ Len(messages'[i].delivered_to)
                           = Len(messages[i].delivered_to) + 1
                      /\ HasDeliveryEntry(messages'[i], u, kind)
                 ELSE messages'[i].delivered_to = messages[i].delivered_to
          /\ (MarkDeliveredDone(lastOp) /\ lastOp.op = lastOp'.op
              /\ lastOp.u = u)
               => \A i \in DOMAIN messages :
                    messages'[i].delivered_to = messages[i].delivered_to]_vars

\* ------------------------------------------------------------------ statuses
MaxStatuses == 2
MaxDuration == 2

\* StatusCreateRequest.duration, in hours
Durations == 0..MaxDuration

\* the (owner, dealer) pairs the dealer endpoints are called with
DealerPairs == {<<1, 2>>, <<2, 1>>}

\* ChatService.get_dealer_network: the dealer records the user owns
GetDealerNetwork(u) == {d \in dealers : d.owner_id = u}

\* a listing that does not look at expires_at
StatusMatchNoExpiry(st, uid, utype, dealer_ids, now) ==
  /\ \/ st.creator_id = uid /\ st.creator_type = utype
     \/ st.creator_id.k = "int" /\ st.creator_id.v \in dealer_ids
        /\ st.creator_type = "user"
  /\ st.is_active

\* ChatService.get_visible_statuses, lines 720-735: the find filter
StatusMatch(st, uid, utype, dealer_ids, now) ==
  /\ \/ st.creator_id = uid /\ st.creator_type = utype
     \/ st.creator_id.k = "int" /\ st.creator_id.v \in dealer_ids
        /\ st.creator_type = "user"
  /\ st.expires_at > now
  /\ st.is_active

\* chat.get_visible_statuses + ChatService.get_visible_statuses: the ids of
\* the statuses listed for user u at time now
ListVisible(u, now) ==
  LET dealer_ids == {d.user_id : d \in GetDealerNetwork(u)}
  IN {statuses[i].status_id :
        i \in {j \in DOMAIN statuses :
                 StatusMatch(statuses[j], IntId(u), "user", dealer_ids, now)}}

statusFrame == <<chatVars, messages, sendsOK, sock, active_connections,
                 ws_manager, http_manager, bcast, settings, chats, outbox,
                 inviteVars, task, resp>>

\* dealers.py: a dealer record {owner_id, user_id} is inserted
DealerAdd(o, d) ==
  /\ o # d
  /\ [owner_id |-> o, user_id |-> d] \notin dealers
  /\ dealers' = dealers \cup {[owner_id |-> o, user_id |-> d]}
  /\ UNCHANGED <<clock, statusFrame, statuses, lastOp>>

\* dealers.delete_dealer: the owner's record is deleted
DealerDelete(o, d) ==
  /\ [owner_id |-> o, user_id |-> d] \in dealers
  /\ dealers' = dealers \ {[owner_id |-> o, user_id |-> d]}
  /\ UNCHANGED <<clock, statusFrame, statuses, lastOp>>

\* chat.create_status as a whole, lines 1133-1145: get_dealer_network, the
\* ChatStatus (visible_to is the creator's network, expires_at is utcnow()
\* + duration), ChatService.create_status: insert_one
CreateStatus(u, duration) ==
  /\ Len(statuses) < MaxStatuses /\ clock < MaxClock
  /\ statuses' = Append(statuses,
       [status_id |-> Len(statuses) + 1,
        creator_id |-> IntId(u), creator_type |-> "user",
        visible_to |-> {d.user_id : d \in GetDealerNetwork(u)},
        viewed_by |-> <<>>,
        created_at |-> clock, expires_at |-> clock + duration,
        is_active |-> TRUE])
  /\ clock' = clock + 1
  /\ UNCHANGED <<statusFrame, dealers, lastOp>>

\* ChatService.record_status_view, lines 338-348: $addToSet viewed_by
RecordView(st, viewer_id, viewer_type, now) ==
  [st EXCEPT !.viewed_by =
     AddToSet(@, [id |-> viewer_id, type |-> viewer_type, timestamp |-> now])]

\* chat.mark_status_viewed as a whole: record_status_view by the caller as
\* "user"; an update_one that matches no status changes nothing
MarkStatusViewed(u, sid) ==
  /\ clock < MaxClock
  /\ statuses' = [i \in DOMAIN statuses |->
                    IF statuses[i].status_id = sid
                      THEN RecordView(statuses[i], IntId(u), "user", clock)
                      ELSE statuses[i]]
  /\ clock' = clock + 1
  /\ lastOp' = Op("record_view", u, sid, FALSE, TRUE)
  /\ UNCHANGED <<statusFrame, dealers>>

NextStatus ==
  \/ Tick
  \/ \E p \in DealerPairs : DealerAdd(p[1], p[2])
  \/ \E p \in DealerPairs : DealerDelete(p[1], p[2])
  \/ \E u \in Users : \E duration \in Durations : CreateStatus(u, duration)
  \/ \E u \in Users : \E sid \in 1..MaxStatuses : MarkStatusViewed(u, sid)

SpecStatus == InitMsg /\ [][NextStatus]_vars

\* C15: a status is listed for a viewer, its creator included, only while
\* now < expires_at and is_active holds; at any time now >= expires_at no
\* listing contains it.
C15_ExpiredStatusNotListed ==
  \A i \in DOMAIN statuses : \A u \in Users : \A now \in clock..MaxClock :
    /\ statuses[i].status_id \in ListVisible(u, now)
         => now < statuses[i].expires_at /\ statuses[i].is_active
    /\ now >= statuses[i].expires_at
         => statuses[i].status_id \notin ListVisible(u, now)

\* C15 witness: one status has expired and its creator no longer lists it,
\* another has not and is listed for its creator and for a user who has the
\* creator in the dealer network.
C15_Witness ==
  \E i, j \in DOMAIN statuses :
    /\ clock >= statuses[i].expires_at
    /\ statuses[i].created_at < statuses[i].expires_at
    /\ statuses[i].status_id \notin ListVisible(statuses[i].creator_id.v, clock)
    /\ clock < statuses[j].expires_at
    /\ statuses[j].status_id \in ListVisible(statuses[j].creator_id.v, clock)
    /\ \E v \in Users \ {statuses[j].creator_id.v} :
         statuses[j].status_id \in ListVisible(v, clock)

\* the listed status is the viewer's own or names the viewer in visible_to
VisibleBySnapshot(st, u) ==
  st.creator_id = IntId(u) \/ u \in st.visible_to

\* C24: a status is listed for a viewer only if the viewer is its creator
\* or is in the visible_to snapshot taken when it was posted, and a change
\* of a dealer network made after posting adds the status to no viewer's
\* list and removes it from none.
C24_VisibleToSnapshot ==
  [][/\ \A i \in DOMAIN statuses' : \A u \in Users :
          statuses'[i].status_id \in ListVisible(u, clock)'
            => VisibleBySnapshot(statuses'[i], u)
     /\ dealers' # dealers =>
          \A u \in Users : \A now \in clock..MaxClock :
            ListVisible(u, now)' = ListVisible(u, now)]_vars

\* the viewed_by entries of a viewer (id and kind)
ViewsOf(st, viewer_id, viewer_type) ==
  {j \in DOMAIN st.viewed_by :
     st.viewed_by[j].id = viewer_id /\ st.viewed_by[j].type = viewer_type}

\* C25: recording a view is idempotent: after a call by a viewer, whatever
\* the number of its earlier calls and their times, the status's viewed_by
\* holds exactly one entry of that viewer.
C25_RecordViewIdempotent ==
  [][(lastOp' # lastOp /\ lastOp'.op = "record_view") =>
       \A i \in DOMAIN statuses' :
         statuses'[i].status_id = lastOp'.mid =>
           Cardinality(ViewsOf(statuses'[i], IntId(lastOp'.u), "user")) = 1]_vars

\* ------------------------------------------------------------ group settings
SettingKeys == {"allow_member_invites", "allow_member_adds",
                "only_admins_message", "allow_admin_invites",
                "allow_user_invites"}

\* the body of PUT /group/{chat_id}/settings: each key is left out or
\* carries a JSON boolean
Patches == [SettingKeys -> {"omitted", "true", "false"}]

\* UpdateGroupSettingsRequest, lines 107-112: the value of a field that the
\* body leaves out
RequestDefault(k) ==
  CASE k = "allow_admin_invites" -> "true"
    [] k = "allow_user_invites" -> "false"
    [] OTHER -> "none"

\* UpdateGroupSettingsRequest: the parsed request
ParseRequest(patch) ==
  [k \in SettingKeys |->
     IF patch[k] = "omitted" THEN RequestDefault(k) ELSE patch[k]]

\* chat.update_group_settings, lines 1053-1062: the dict without its None
\* values
WithoutNone(request) ==
  [k \in {j \in SettingKeys : request[j] # "none"} |-> request[k]]

\* ChatService.update_group_settings, lines 1348-1352: settings.get(k, default)
ServiceDefault(k) ==
  IF k = "allow_admin_invites" THEN "true" ELSE "false"

\* ChatService.update_group_settings, lines 1345-1354: the $set of all five
\* keys
SetSettings(old, dict) ==
  [k \in DOMAIN old |->
     IF k \in SettingKeys
       THEN (IF k \in DOMAIN dict THEN dict[k] ELSE ServiceDefault(k)) = "true"
       ELSE old[k]]

\* chat.update_group_settings as a whole: is_group_admin (403), the dict of
\* the request's non-None fields, ChatService.update_group_settings; an
\* update that modifies nothing is answered with an error.
UpdateGroupSettings(u, patch) ==
  /\ LET new == SetSettings(settings, WithoutNone(ParseRequest(patch)))
     IN IF ~IsGroupAdmin(IntId(u))
          THEN /\ lastOp' = Op("update_settings", u, 0, FALSE, FALSE)
               /\ UNCHANGED settings
          ELSE /\ settings' = new
               /\ lastOp' = Op("update_settings", u, 0, FALSE, new # settings)
  /\ UNCHANGED <<clock, chatVars, messages, task, resp, sendsOK, sock,
                 active_connections, ws_manager, http_manager, bcast,
                 statuses, dealers, chats, outbox, inviteVars>>

\* GroupInviteRequest.expires_in_hours
InviteHours == 1..InviteTTL

\* chat.create_group_invite, lines 941-946: the permission check
CanInvite(uid) ==
  \/ IsGroupAdmin(uid) /\ settings.allow_admin_invites
  \/ ~IsGroupAdmin(uid) /\ settings.allow_user_invites

\* chat.create_group_invite as a whole: get_chat, is_group_admin, the
\* permission check (403), ChatService.create_group_invite: insert_one
CreateGroupInvite(u, hours) ==
  /\ clock < MaxClock
  /\ IF ~CanInvite(IntId(u))
       THEN /\ lastOp' = Op("create_invite", u, 0, FALSE, FALSE)
            /\ UNCHANGED <<clock, invite>>
       ELSE /\ invite' = [is_active |-> TRUE, expires_at |-> clock + hours,
                          used_by |-> 0]
            /\ clock' = clock + 1
            /\ lastOp' = Op("create_invite", u, 0, FALSE, TRUE)
  /\ UNCHANGED <<chatVars, messages, task, resp, sendsOK, rtVars, outbox,
                 joinsOK>>

NextSettings ==
  \/ \E u \in Users : \E patch \in Patches : UpdateGroupSettings(u, patch)
  \/ \E u \in Users : \E hours \in InviteHours : CreateGroupInvite(u, hours)

SpecSettings == InitMsg /\ [][NextSettings]_vars

\* C21: an update of the settings by a user who is not a group admin is
\* rejected and changes nothing; an admin's update sets exactly the keys
\* its body carries and leaves every other setting, the keys the body
\* omits included, at its previous value.
C21_PartialUpdate ==
  [][\A u \in Users : \A patch \in Patches :
       UpdateGroupSettings(u, patch) =>
         IF ~IsGroupAdmin(IntId(u))
           THEN ~lastOp'.ok /\ settings' = settings
           ELSE \A k \in DOMAIN settings :
                  settings'[k] =
                    IF k \in SettingKeys /\ patch[k] # "omitted"
                      THEN patch[k] = "true"
                      ELSE settings[k]]_vars

\* C23: an invite is created only for an admin while allow_admin_invites
\* is true or for a participant who is not an admin while
\* allow_user_invites is true; every other caller, a non-participant
\* included, is rejected and no invite is created.
C23_InvitePermission ==
  [][(lastOp' # lastOp /\ lastOp'.op = "create_invite") =>
       LET uid == IntId(lastOp'.u)
           allowed == \/ IsGroupAdmin(uid) /\ settings.allow_admin_invites
                      \/ /\ ~IsGroupAdmin(uid)
                         /\ IsParticipant(uid)
                         /\ settings.allow_user_invites
       IN /\ lastOp'.ok => allowed
          /\ ~allowed => ~lastOp'.ok /\ invite' = invite]_vars

\* ------------------------------------------------------------- add members
\* AddMembersRequest.member_ids: the lists a request may carry
MemberLists == {<<3>>, <<2, 3>>, <<3, 3>>}

\* the requests that may carry an add-members call
AddSlots == {1, 2}

\* the longest participants list an add-members call is started on
MaxParticipants == 3

\* ChatService.can_add_members: a group admin (ids compared as str), or a
\* participant while allow_member_adds is set
CanAddMembers(uid) ==
  \/ \E i \in DOMAIN settings.group_admins :
       Str(settings.group_admins[i].id) = Str(uid)
  \/ IsParticipant(uid) /\ settings.allow_member_adds

\* ChatService.add_group_members, lines 970-983: the entries of the ids
\* that are not among existing_ids, in request order
NewMembers(member_ids, parts, now) ==
  LET existing_ids == {Str(parts[i].id) : i \in DOMAIN parts}
      kept == SelectSeq(member_ids,
                        LAMBDA m : Str(IntId(m)) \notin existing_ids)
  IN [i \in DOMAIN kept |->
        [id |-> IntId(kept[i]), type |-> "user", role |-> "member",
         joined_at |-> now]]

\* chat.add_group_members, lines 1077-1100: get_chat, is_group_admin,
\* can_add_members; 403 unless one of the two allows
AddMembersBegin(r, u, ids) ==
  /\ task[r].op = "idle"
  /\ Len(participants) < MaxParticipants
  /\ IF ~(CanAddMembers(IntId(u)) \/ IsGroupAdmin(IntId(u)))
       THEN Reject(r)
       ELSE /\ task' = [task EXCEPT ![r] =
                 [Idle EXCEPT !.op = "add_members", !.pc = "add_read",
                              !.uid = IntId(u), !.member_ids = ids]]
            /\ UNCHANGED resp
  /\ UNCHANGED <<clock, chatVars, messages, sendsOK, rtVars, outbox,
                 inviteVars, lastOp>>

\* ChatService.add_group_members, lines 966-983: find_one, then the new
\* members are computed in the handler; with none of them it returns []
AddMembersRead(r) ==
  /\ task[r].pc = "add_read"
  /\ LET new == NewMembers(task[r].member_ids, participants, clock)
     IN IF new = <<>>
          THEN Finish(r)
          ELSE /\ task' = [task EXCEPT ![r].pc = "add_push",
                                       ![r].new_members = new]
               /\ UNCHANGED resp
  /\ UNCHANGED <<clock, chatVars, messages, sendsOK, rtVars, outbox,
                 inviteVars, lastOp>>

\* ChatService.add_group_members, lines 985-996: $push $each new_members,
\* and the entries are returned
AddMembersPush(r) ==
  /\ task[r].pc = "add_push"
  /\ participants' = participants \o task[r].new_members
  /\ Finish(r)
  /\ UNCHANGED <<clock, unread_counts, last_message, last_activity, messages,
                 sendsOK, rtVars, outbox, inviteVars, lastOp>>

MembersStep(u) ==
  \/ JoinStep(u)
  \/ \E r \in AddSlots : \E ids \in MemberLists : AddMembersBegin(r, u, ids)
  \/ AddMembersRead(u)
  \/ AddMembersPush(u)

NextMembers == Tick \/ \E u \in Users : MembersStep(u)

SpecMembers == InitInvite /\ [][NextMembers]_vars

\* no participant id appears twice
NoDuplicateParticipants(parts) ==
  \A i, j \in DOMAIN parts : Str(parts[i].id) = Str(parts[j].id) => i = j

\* the request r returns from add_group_members in this step
AddMembersDone(r) ==
  task[r].op = "add_members" /\ task'[r].op = "idle" /\ resp'[r] = "ok"

\* the entries add_group_members returns: the new members it computed
AddedMembers(r) ==
  IF task[r].pc = "add_push" THEN task[r].new_members ELSE <<>>

\* C22: whatever the interleaving of add-members calls and invite
\* redemptions, no participant id appears twice in participants; and a
\* call returns exactly the entries it has newly added: the returned ids
\* were no participants before, are participants after, and every
\* requested id it leaves out was a participant already.
C22_NoDuplicateParticipants ==
  [][/\ NoDuplicateParticipants(participants')
     /\ \A r \in AddSlots :
          AddMembersDone(r) =>
            LET before == {Str(participants[i].id) : i \in DOMAIN participants}
                ret == AddedMembers(r)
                retIds == {Str(ret[i].id) : i \in DOMAIN ret}
            IN /\ participants' = participants \o ret
               /\ retIds \cap before = {}
               /\ NoDuplicateParticipants(ret)
               /\ \A i \in DOMAIN task[r].member_ids :
                    Str(IntId(task[r].member_ids[i])) \in retIds \cup before]_vars

\* ------------------------------------------------------------- dealer chats
MaxChats == 2

\* the requests that may carry a create-dealer-chat call
DealerSlots == {1, 2}

\* chat.create_dealer_chat, lines 219-230: the ChatRoom that is inserted;
\* both participants have type "user"
DealerChatRoom(chat_id, user_id, dealer_user_id) ==
  [chat_id |-> chat_id, chat_type |-> "dealer_chat", is_active |-> TRUE,
   participants |-> <<[id |-> user_id, type |-> "user"],
                      [id |-> dealer_user_id, type |-> "user"]>>]

\* int(user_id): the int of an int or of a str of digits
ToInt(x) == [k |-> "int", v |-> x.v]

\* ChatService.get_existing_dealer_chat, lines 1755-1774: the find_one
\* filter, two $elemMatch on participants
DealerChatMatch(chat, user_id, dealer_id) ==
  /\ chat.chat_type = "dealer_chat"
  /\ chat.is_active
  /\ \E i \in DOMAIN chat.participants :
       chat.participants[i].id = ToInt(user_id)
       /\ chat.participants[i].type = "user"
  /\ \E i \in DOMAIN chat.participants :
       chat.participants[i].id = ToInt(dealer_id)
       /\ chat.participants[i].type = "user"

ExistingDealerChats(user_id, dealer_id) ==
  {i \in DOMAIN chats : DealerChatMatch(chats[i], user_id, dealer_id)}

\* the request ends with an HTTPException, which this handler re-raises
Raise(r, status) ==
  /\ resp' = [resp EXCEPT ![r] = status]
  /\ task' = [task EXCEPT ![r] = Idle]

\* chat.create_dealer_chat, lines 188-196: get_dealer_info (404) and
\* is_dealer_in_user_network (403).  The dealer is named by its user id.
CreateDealerBegin(r, u, d) ==
  /\ task[r].op = "idle"
  /\ Len(chats) + InFlight < MaxChats
  /\ IF ~\E rec \in dealers : rec.user_id = d
       THEN Raise(r, "404")
       ELSE IF [owner_id |-> u, user_id |-> d] \notin dealers
       THEN Raise(r, "403")
       ELSE /\ task' = [task EXCEPT ![r] =
                 [Idle EXCEPT !.op = "dealer_chat", !.pc = "dealer_find",
                              !.uid = IntId(u), !.dealer_id = d]]
            /\ UNCHANGED resp
  /\ UNCHANGED <<clock, chatVars, messages, sendsOK, sendFrame, outbox>>

\* chat.create_dealer_chat, lines 203-214: get_existing_dealer_chat; an
\* existing room is returned with is_new false
CreateDealerFind(r) ==
  /\ task[r].pc = "dealer_find"
  /\ LET found == ExistingDealerChats(task[r].uid, IntId(task[r].dealer_id))
     IN IF found # {}
          THEN /\ \E i \in found :
                    lastOp' = Op("dealer_chat", task[r].uid.v, chats[i].chat_id,
                                 FALSE, TRUE)
               /\ resp' = [resp EXCEPT ![r] = "existing"]
               /\ task' = [task EXCEPT ![r] = Idle]
          ELSE /\ task' = [task EXCEPT ![r].pc = "dealer_insert"]
               /\ UNCHANGED <<resp, lastOp>>
  /\ UNCHANGED <<clock, chatVars, messages, sendsOK, rtVars, inviteVars, outbox>>

\* chat.create_dealer_chat, lines 219-237, ChatService.create_chat:
\* insert_one, the new room is returned with is_new true
CreateDealerInsert(r) ==
  /\ task[r].pc = "dealer_insert"
  /\ chats' = InsertOne(chats, DealerChatRoom(Len(chats) + 1, task[r].uid,
                                              IntId(task[r].dealer_id)))
  /\ lastOp' = Op("dealer_chat", task[r].uid.v, Len(chats) + 1, FALSE, TRUE)
  /\ resp' = [resp EXCEPT ![r] = "created"]
  /\ task' = [task EXCEPT ![r] = Idle]
  /\ UNCHANGED <<clock, chatVars, messages, sendsOK, sock, active_connections,
                 ws_manager, http_manager, bcast, settings, statuses, dealers,
                 inviteVars, outbox>>

NextDealerChat ==
  \/ \E p \in DealerPairs : DealerAdd(p[1], p[2])
  \/ \E r \in DealerSlots : \E u \in Users : \E d \in Users :
       CreateDealerBegin(r, u, d)
  \/ \E r \in DealerSlots : CreateDealerFind(r)
  \/ \E r \in DealerSlots : CreateDealerInsert(r)

SpecDealerChat == InitMsg /\ [][NextDealerChat]_vars

\* the active dealer_chat rooms that have both users as participants
RoomsOf(a, b) == ExistingDealerChats(IntId(a), IntId(b))

\* C34: for every user and dealer pair, after any interleaving of
\* create-dealer-chat calls there is at most one active dealer_chat room
\* having both as participants.
C34_OneDealerChatPerPair ==
  \A a \in Users : \A b \in Users \ {a} : Cardinality(RoomsOf(a, b)) <= 1

\* C34: a create-dealer-chat call made when such a room exists returns its
\* id with is_new=false and creates no room.
C34_ExistingRoomReturned ==
  [][\A r \in DealerSlots :
       (task[r].pc = "dealer_find" /\ task'[r].pc # "dealer_find"
        /\ ExistingDealerChats(task[r].uid, IntId(task[r].dealer_id)) # {}) =>
         /\ resp'[r] = "existing"
         /\ lastOp'.mid \in
              ExistingDealerChats(task[r].uid, IntId(task[r].dealer_id))
         /\ chats' = chats]_vars
====
